---- MODULE Spec2Model ----
(***************************************************************************)
(* A model of the serialization core of pumpkin-datafixerupper: the        *)
(* DataResult algebra, the JSON and NBT format adapters, the struct        *)
(* builders, and the codecs built on them.  Every operation of the library *)
(* is a pure function of its inputs, so each action applies one operation  *)
(* to inputs drawn from a bounded set and records the call in `op`, the    *)
(* inputs in `arg` and what the operation returned in `res`.               *)
(*                                                                         *)
(* Strings built with format!/join are sequences of string tokens; the     *)
(* separator "; " is a token of its own.                                   *)
(***************************************************************************)
EXTENDS Integers, Sequences, FiniteSets, TLC

VARIABLES op, arg, res, cache, heap, threads, lock, lazy

vars == <<op, arg, res, cache, heap, threads, lock, lazy>>

\* ------------------------------------------------------------------ bounds

\* apply_2 .. apply_MaxArity are exercised (the source generates apply_3..16
\* from one macro).
MaxArity == 4

MaxFields == 3

MaxLen == 4
MaxKeys == 3
MaxAddress == 2
MaxDated == 3
MaxSince == 2
MaxChecked == 9
MaxAdds == 2
MaxTags == 2
MaxEntries == 2
MaxThreads == 2

\* ------------------------------------------------------------------ Option

None == [some |-> FALSE]

Some(v) == [some |-> TRUE, val |-> v]

\* --------------------------------------------------------------- Lifecycle

Stable == [k |-> "Stable"]

Experimental == [k |-> "Experimental"]

Deprecated(since) == [k |-> "Deprecated", since |-> since]

add_first(l1, l2) == l1

add(l1, l2) ==
    IF l1.k = "Experimental" \/ l2.k = "Experimental" THEN Experimental
    ELSE IF l1.k = "Deprecated" /\ l2.k = "Deprecated"
         THEN (IF l1.since < l2.since THEN l1 ELSE l2)
    ELSE IF l1.k = "Deprecated" THEN l1
    ELSE IF l2.k = "Deprecated" THEN l2
    ELSE Stable

\* -------------------------------------------------------------- DataResult

success_with_lifecycle(r, l) ==
    [tag |-> "Success", result |-> r, lifecycle |-> l]

success(r) == success_with_lifecycle(r, Experimental)

error_any_with_lifecycle(m, p, l) ==
    [tag |-> "Error", partial_result |-> p, lifecycle |-> l, message |-> m]

error_with_lifecycle(m, l) == error_any_with_lifecycle(m, None, l)

error_partial_with_lifecycle(m, p, l) == error_any_with_lifecycle(m, Some(p), l)

error(m) == error_with_lifecycle(m, Experimental)

error_partial(m, p) == error_partial_with_lifecycle(m, p, Experimental)

is_success(r) == r.tag = "Success"

is_error(r) == r.tag = "Error"

with_lifecycle(r, new_lifecycle) == [r EXCEPT !.lifecycle = new_lifecycle]

add_lifecycle(r, added_lifecycle) ==
    with_lifecycle(r, add(r.lifecycle, added_lifecycle))

into_result(r) == IF is_success(r) THEN Some(r.result) ELSE None

into_result_or_partial(r) ==
    IF is_success(r) THEN Some(r.result) ELSE r.partial_result

\* Keeps the first message only.
append_messages_first(first, second) == first

append_messages(first, second) == first \o <<"; ">> \o second

\* The value a result carries: the complete one, or else the partial one.
value_of(r) == IF is_success(r) THEN r.result ELSE r.partial_result.val

\* The combinators below take a closure in the source.  Every branch that
\* calls the closure calls it on value_of of the result(s), so the closure is
\* passed here already applied to that value (`mapped`, `second_result`,
\* `applied`); a branch that does not call it does not read the argument.

map(r, mapped) ==
    IF is_success(r) THEN success_with_lifecycle(mapped, r.lifecycle)
    ELSE error_any_with_lifecycle(
             r.message,
             IF r.partial_result.some THEN Some(mapped) ELSE None,
             r.lifecycle)

flat_map_forgetting(r, second_result) ==
    IF is_success(r) \/ r.partial_result.some THEN second_result ELSE r

flat_map(r, second_result) ==
    IF is_success(r) THEN add_lifecycle(second_result, r.lifecycle)
    ELSE IF r.partial_result.some
         THEN LET new_lifecycle == add(second_result.lifecycle, r.lifecycle)
              IN  IF is_success(second_result)
                  THEN error_partial_with_lifecycle(
                           r.message, second_result.result, new_lifecycle)
                  ELSE error_any_with_lifecycle(
                           append_messages(r.message, second_result.message),
                           second_result.partial_result, new_lifecycle)
    ELSE r

with_complete_or_partial(r, value) ==
    IF is_success(r) THEN success_with_lifecycle(value, r.lifecycle)
    ELSE IF r.partial_result.some
         THEN error_partial_with_lifecycle(r.message, value, r.lifecycle)
         ELSE error_with_lifecycle(r.message, r.lifecycle)

add_message(r, other_result) ==
    IF is_success(r) /\ is_success(other_result)
    THEN success_with_lifecycle(r.result, Stable)
    ELSE IF is_error(r) /\ is_error(other_result)
         THEN error_any_with_lifecycle(
                  append_messages(r.message, other_result.message),
                  IF r.partial_result.some /\ other_result.partial_result.some
                  THEN r.partial_result
                  ELSE None,
                  Stable)
    ELSE IF is_error(r) THEN error_with_lifecycle(r.message, Stable)
    ELSE error_with_lifecycle(other_result.message, Stable)

apply_2(applied, r1, r2) ==
    IF is_success(r1) /\ is_success(r2) THEN success(applied)
    ELSE IF is_error(r1) /\ is_error(r2)
         THEN error_any_with_lifecycle(
                  append_messages(r1.message, r2.message),
                  IF r1.partial_result.some /\ r2.partial_result.some
                  THEN Some(applied)
                  ELSE None,
                  Experimental)
    ELSE IF is_error(r1) THEN error(r1.message)
    ELSE error(r2.message)

apply_2_and_make_stable(applied, r1, r2) ==
    with_lifecycle(apply_2(applied, r1, r2), Stable)

\* result.apply(function_result): `applied` is the wrapped closure called on
\* the value of `r`.
apply(r, function_result, applied) ==
    IF is_success(r) /\ is_success(function_result)
    THEN success_with_lifecycle(applied, add(r.lifecycle, function_result.lifecycle))
    ELSE IF is_success(r)
    THEN error_any_with_lifecycle(
             function_result.message,
             IF function_result.partial_result.some THEN Some(applied) ELSE None,
             add(r.lifecycle, function_result.lifecycle))
    ELSE IF is_success(function_result)
    THEN error_any_with_lifecycle(
             r.message,
             IF r.partial_result.some THEN Some(applied) ELSE None,
             add(r.lifecycle, function_result.lifecycle))
    ELSE error_any_with_lifecycle(
             append_messages(r.message, function_result.message),
             IF r.partial_result.some /\ function_result.partial_result.some
             THEN Some(applied)
             ELSE None,
             add(r.lifecycle, function_result.lifecycle))

RECURSIVE join(_)
join(messages) ==
    IF Len(messages) = 0 THEN <<>>
    ELSE IF Len(messages) = 1 THEN messages[1]
    ELSE messages[1] \o <<"; ">> \o join(Tail(messages))

\* The messages of the Error results of `rs`, in the order of `rs`.
RECURSIVE collect_messages(_)
collect_messages(rs) ==
    IF Len(rs) = 0 THEN <<>>
    ELSE (IF is_error(rs[1]) THEN <<rs[1].message>> ELSE <<>>)
         \o collect_messages(Tail(rs))

\* apply_3 .. apply_16: one macro body, here over the sequence of the n inputs.
impl_apply(applied, rs) ==
    IF \A i \in DOMAIN rs : ~is_error(rs[i])
    THEN success(applied)
    ELSE error_any_with_lifecycle(
             join(collect_messages(rs)),
             IF \A i \in DOMAIN rs : into_result_or_partial(rs[i]).some
             THEN Some(applied)
             ELSE None,
             Experimental)

\* The apply_n the struct codecs and callers pick by arity.
apply_n(applied, rs) ==
    IF Len(rs) = 2 THEN apply_2(applied, rs[1], rs[2]) ELSE impl_apply(applied, rs)

\* The values the n results carry: what the closure of apply_n is called on.
values_of(rs) == [i \in DOMAIN rs |-> value_of(rs[i])]

\* ----------------------------------------------------------------- numbers

\* i8, i16 and i32 values are integers.  An i64, and an f64 holding a whole
\* number, is a sign and the set of the bit positions set in its magnitude, so
\* that magnitudes up to 2^63 and the 53-bit precision of f64 are exact.
wide(neg, mag) == [neg |-> neg /\ mag # {}, mag |-> mag]

bits_of(n) == {i \in 0..30 : (n \div (2 ^ i)) % 2 = 1}

RECURSIVE sum_bits(_)
sum_bits(S) ==
    IF S = {} THEN 0
    ELSE LET i == CHOOSE x \in S : TRUE IN (2 ^ i) + sum_bits(S \ {i})

max_bit(S) == CHOOSE i \in S : \A j \in S : j <= i

I32_MAX == 2147483647

i32_min == (0 - I32_MAX) - 1

\* `i as i64` for an i8, i16 or i32.
i64_of(n) ==
    IF n = i32_min THEN wide(TRUE, {31})
    ELSE wide(n < 0, bits_of(IF n < 0 THEN 0 - n ELSE n))

\* The number of significant bits an f64 keeps.
F64_MANTISSA_DIGITS == 53

\* `n as f64` for an i64 or u64: round to nearest, ties to even.
as_f64(w) ==
    IF w.mag = {} \/ max_bit(w.mag) < F64_MANTISSA_DIGITS THEN w
    ELSE LET cut == max_bit(w.mag) - (F64_MANTISSA_DIGITS - 1)
             kept == {i \in w.mag : i >= cut}
             dropped == {i \in w.mag : i < cut}
             round_up == /\ (cut - 1) \in dropped
                         /\ (dropped # {cut - 1} \/ cut \in kept)
             carry_to == CHOOSE i \in cut..64 :
                            i \notin kept /\ \A j \in cut..(i - 1) : j \in kept
         IN  wide(w.neg, IF round_up
                         THEN {i \in kept : i > carry_to} \cup {carry_to}
                         ELSE kept)

\* `d as i64` for a whole f64: saturating.
f64_as_i64(d) ==
    IF d.mag # {} /\ max_bit(d.mag) >= 63
    THEN (IF d.neg THEN wide(TRUE, {63}) ELSE wide(FALSE, 0..62))
    ELSE d

\* `d as i32` for a whole f64: saturating.
f64_as_i32(d) ==
    IF d.mag = {} THEN 0
    ELSE IF max_bit(d.mag) >= 31 THEN (IF d.neg THEN i32_min ELSE I32_MAX)
    ELSE IF d.neg THEN 0 - sum_bits(d.mag) ELSE sum_bits(d.mag)

\* A narrowing that saturates instead of keeping the low bits.
i64_as_i32_saturating(l) == f64_as_i32(l)

\* `l as i32` for an i64: the low 32 bits, two's complement.
i64_as_i32(l) ==
    LET low31 == sum_bits({i \in l.mag : i <= 30})
        bit31 == 31 \in l.mag
    IN  IF ~l.neg THEN (IF bit31 THEN (low31 - I32_MAX) - 1 ELSE low31)
        ELSE IF ~bit31 THEN 0 - low31
        ELSE IF low31 = 0 THEN i32_min
        ELSE (I32_MAX - low31) + 1

\* A Number is [k |-> variant, v |-> payload] (no f32 and no fractional f64:
\* no codec of the model writes one).

i64_from(num) ==
    CASE num.k \in {"Byte", "Short", "Int"} -> i64_of(num.v)
      [] num.k = "Long" -> num.v
      [] num.k = "Double" -> f64_as_i64(num.v)

i32_from(num) ==
    CASE num.k \in {"Byte", "Short", "Int"} -> num.v
      [] num.k = "Long" -> i64_as_i32(num.v)
      [] num.k = "Double" -> f64_as_i32(num.v)

\* `i32::from(num) as i16`, `as i8`, `as u8`: the low bits of the i32.
i16_from(num) ==
    LET m == i32_from(num) % 65536 IN IF m >= 32768 THEN m - 65536 ELSE m

i8_from(num) ==
    LET m == i32_from(num) % 256 IN IF m >= 128 THEN m - 256 ELSE m

u8_from(num) == i32_from(num) % 256

\* ------------------------------------------------------------------ values

\* A value of a format (a serde_json::Value or an NbtTag) is [t |-> variant,
\* v |-> payload]; an Object and a Compound map key strings to values.
\* The text of a value, as Display gives it, is the one token ToString(v).

\* Numeric strings "-MaxParsed" .. "MaxParsed" are the ones the model parses.
MaxParsed == 9

\* string.parse::<i32>()
parse_i32(string) ==
    LET hits == {n \in (0 - MaxParsed)..MaxParsed : ToString(n) = string}
    IN  IF hits = {} THEN None ELSE Some(CHOOSE n \in hits : TRUE)

\* --------------------------------------------------------------------- ops

JSON_INSTANCE == [kind |-> "json", compressed |-> FALSE]

JSON_COMPRESSED == [kind |-> "json", compressed |-> TRUE]

NBT_INSTANCE == [kind |-> "nbt", compressed |-> FALSE]

compress_maps(ops) == ops.compressed

empty(ops) == IF ops.kind = "json" THEN [t |-> "Null"] ELSE [t |-> "End"]

\* JsonOps: Number -> serde_json::Value keeps an integer exactly.
\* NbtOps: NbtTag::Double(n.into()).
create_number(ops, n) ==
    IF ops.kind = "json" THEN [t |-> "Number", v |-> i64_from(n)]
    ELSE [t |-> "Double", v |-> IF n.k = "Double" THEN n.v ELSE as_f64(i64_from(n))]

\* create_byte, create_short, create_int, create_long: k names the type.
create_typed(ops, k, data) ==
    IF ops.kind = "json" THEN create_number(ops, [k |-> k, v |-> data])
    ELSE [t |-> k, v |-> data]

create_bool(ops, data) ==
    IF ops.kind = "json" THEN [t |-> "Bool", v |-> data]
    ELSE [t |-> "Byte", v |-> IF data THEN 1 ELSE 0]

create_string(ops, data) == [t |-> "String", v |-> data]

\* JsonOps only (NbtOps collects a list through its ListCollector).
create_list(ops, values) == CASE ops.kind = "json" -> [t |-> "Array", v |-> values]

RECURSIVE get_as_string(_)
get_as_string(input) ==
    CASE input.t = "Array" ->
             IF Len(input.v) = 1 THEN get_as_string(input.v[1]) ELSE None
      [] input.t = "Bool" -> Some(IF input.v THEN "true" ELSE "false")
      [] input.t = "Number" ->
             Some(IF input.v.mag = {} \/ max_bit(input.v.mag) <= 30
                  THEN ToString(f64_as_i32(input.v))
                  ELSE ToString(input.v))
      [] input.t = "String" -> Some(input.v)
      [] OTHER -> None

is_valid_key(ops, input) == input.t # "String" /\ ~ops.compressed

\* JsonOps only.
get_bool(ops, input) ==
    CASE ops.kind = "json" ->
        IF input.t = "Bool" THEN success(input.v)
        ELSE error(<<"Not a boolean: ", ToString(input)>>)

get_number(ops, input) ==
    IF ops.kind = "json"
    THEN IF input.t = "Number"
         THEN success([k |-> "Double", v |-> as_f64(input.v)])
         ELSE IF input.t = "String" /\ ops.compressed /\ parse_i32(input.v).some
         THEN success([k |-> "Int", v |-> parse_i32(input.v).val])
         ELSE error(<<"Not a number: ", ToString(input)>>)
    ELSE IF input.t \in {"Byte", "Short", "Int", "Long", "Double"}
         THEN success([k |-> input.t, v |-> input.v])
         ELSE error(<<"Not a number">>)

get_string(ops, input) ==
    IF ops.kind = "json"
    THEN IF input.t = "String" \/ (input.t = "Number" /\ ops.compressed)
         THEN success(get_as_string(input).val)
         ELSE error(<<"Not a string: ", ToString(input)>>)
    ELSE IF input.t = "String" THEN success(input.v)
         ELSE error(<<"Not a string">>)

\* The MapLike view of a map: the map from key strings to values itself.
get_map(ops, input) ==
    IF ops.kind = "json"
    THEN IF input.t = "Object" THEN success(input.v)
         ELSE error(<<"Not a JSON object: ", ToString(input)>>)
    ELSE IF input.t = "Compound" THEN success(input.v)
         ELSE error(<<"Not a map: ", ToString(input)>>)

\* MapLike::get_str
get_str(map_like, key) ==
    IF key \in DOMAIN map_like THEN Some(map_like[key]) ELSE None

\* JsonOps only: the iterator is the sequence of the elements still to come.
get_iter(ops, input) ==
    CASE ops.kind = "json" ->
        IF input.t = "Array" THEN success(input.v)
        ELSE error(<<"Not a JSON array: ", ToString(input)>>)

map_put(m, key, value) ==
    [x \in DOMAIN m \cup {key} |-> IF x = key THEN value ELSE m[x]]

\* JsonOps only.
merge_into_list(ops, list, value) ==
    CASE ops.kind = "json" ->
        IF list.t = "Array" /\ list # empty(ops)
        THEN error_partial(
                 <<"merge_into_list called with not a list: ", ToString(list)>>, list)
        ELSE success([t |-> "Array", v |-> (IF list.t = "Array" THEN list.v ELSE <<>>) \o <<value>>])

\* JsonOps only.
merge_values_into_list(ops, list, values) ==
    CASE ops.kind = "json" ->
        IF list.t = "Array" /\ list # empty(ops)
        THEN error_partial(
                 <<"merge_values_into_list called with not a list: ", ToString(list)>>,
                 list)
        ELSE success([t |-> "Array", v |-> (IF list.t = "Array" THEN list.v ELSE <<>>) \o values])

merge_into_map(ops, m, key, value) ==
    IF ops.kind = "json"
    THEN IF m.t = "Object" /\ m # empty(ops)
         THEN error_partial(
                  <<"merge_into_map called with not a map: ", ToString(m)>>, m)
         ELSE IF is_valid_key(ops, key)
         THEN error_partial(<<"key is not a string: ", ToString(key)>>, m)
         ELSE IF ~get_as_string(key).some THEN [tag |-> "Panic"]  \* unwrap of None
         ELSE success([t |-> "Object", v |-> map_put(IF m.t = "Object" THEN m.v ELSE <<>>,
                                    get_as_string(key).val, value)])
    ELSE IF m.t \notin {"Compound", "End"}
         THEN error_partial(<<"Not a map: ", ToString(m)>>, m)
         ELSE IF key.t # "String"
         THEN error_partial(<<"Key is not a string: ", ToString(key)>>, m)
         ELSE success([t |-> "Compound", v |-> map_put(IF m.t = "Compound" THEN m.v ELSE <<>>,
                                    key.v, value)])

\* JsonOps::merge_map_like_into_map: other_map_like is the sequence of the
\* <<key, value>> entries its iterator yields.  missed holds the keys that
\* were not inserted.
RECURSIVE merge_map_like_entries(_, _, _, _)
merge_map_like_entries(ops, output_map, other_map_like, n) ==
    IF n = 0 THEN [output_map |-> output_map, missed |-> <<>>, panicked |-> FALSE]
    ELSE LET before == merge_map_like_entries(ops, output_map, other_map_like, n - 1)
         IN  IF before.panicked THEN before
             ELSE IF is_valid_key(ops, other_map_like[n][1])
             THEN IF ~get_as_string(other_map_like[n][1]).some
                  THEN [before EXCEPT !.panicked = TRUE]  \* unwrap of None
                  ELSE [before EXCEPT !.output_map =
                           map_put(@, get_as_string(other_map_like[n][1]).val,
                                   other_map_like[n][2])]
             ELSE [before EXCEPT !.missed = Append(@, other_map_like[n][1])]

merge_map_like_result(m, merged) ==
    IF merged.panicked THEN [tag |-> "Panic"]
    ELSE IF Len(merged.missed) = 0
    THEN success([t |-> "Object", v |-> merged.output_map])
    ELSE error_partial(<<"Some keys are not strings", ": ", ToString(merged.missed)>>,
                       [t |-> "Object", v |-> merged.output_map])

merge_map_like_into_map(ops, m, other_map_like) ==
    IF m.t = "Object" /\ m # empty(ops)
    THEN error_partial(
             <<"merge_map_like_into_map called with not a map: ", ToString(m)>>, m)
    ELSE merge_map_like_result(
             m,
             merge_map_like_entries(ops, IF m.t = "Object" THEN m.v ELSE <<>>,
                                    other_map_like, Len(other_map_like)))

\* The loop over the entries, as the result after the last entry in terms of
\* the result after the entries before it.
RECURSIVE merge_entries_into_map(_, _, _)
merge_entries_into_map(ops, m, entries) ==
    IF Len(entries) = 0 THEN success(m)
    ELSE LET n == Len(entries)
             result == merge_entries_into_map(ops, m, SubSeq(entries, 1, n - 1))
         IN  flat_map(result,
                      merge_into_map(ops, value_of(result),
                                     entries[n][1], entries[n][2]))

merge_into_primitive(ops, prefix, value) ==
    IF prefix = empty(ops) THEN success(value)
    ELSE error(<<"Do not know how to append a primitive value ",
                 ToString(value), " to ", ToString(prefix)>>)

\* iter.all(|e| get_number(e).is_success()): whether every element up to the
\* first failing one is a number, and the iterator as `all` leaves it, past
\* every element it looked at.
RECURSIVE iter_all_numbers(_, _)
iter_all_numbers(ops, iter) ==
    IF Len(iter) = 0 THEN [all |-> TRUE, rest |-> <<>>]
    ELSE IF is_success(get_number(ops, Head(iter)))
         THEN iter_all_numbers(ops, Tail(iter))
         ELSE [all |-> FALSE, rest |-> Tail(iter)]

\* get_bytes, get_int_iter, get_long_iter: the same body for each element type.
get_packed(ops, elem, input) ==
    LET iter == get_iter(ops, input)
        checked == iter_all_numbers(ops, value_of(iter))
    IN  flat_map(
            iter,
            IF checked.all
            THEN success([i \in 1..Len(checked.rest) |->
                             LET num == get_number(ops, checked.rest[i]).result
                             IN  CASE elem = "bytes" -> i8_from(num)
                                   [] elem = "ints" -> i32_from(num)
                                   [] elem = "longs" -> i64_from(num)])
            ELSE error(<<"Some elements are not ", elem, ": ", ToString(input)>>))

\* create_byte_list, create_int_list, create_long_list
create_packed(ops, elem, values) ==
    create_list(
        ops,
        [i \in 1..Len(values) |->
            create_typed(ops,
                         CASE elem = "bytes" -> "Byte"
                           [] elem = "ints" -> "Int"
                           [] elem = "longs" -> "Long",
                         values[i])])

\* --------------------------------------------------------- struct builders

\* A struct builder is [kind, ops, builder]: kind "nbt" is NbtStructBuilder,
\* whose builder holds a Compound; kind "map" is the universal MapBuilder,
\* whose builder holds the list of <<key, value>> entries.

\* ------------------------------------------------------- NbtOps list collector

\* An NbtTag is [t, v]: v is an integer for Byte, Short, Int and Long, the
\* function from the keys to the child tags for a Compound, the sequence of
\* the elements for a List, of u8 for a ByteArray, of i32 / i64 for an
\* IntArray / LongArray.  A ListCollector is [variant, result] or
\* [variant, list] as in the source.

new_initial_collector == [variant |-> "Initial"]

ListCollector_new(tag) ==
    CASE tag.t = "End" -> Some(new_initial_collector)
      [] tag.t \in {"List", "ByteArray", "IntArray", "LongArray"} ->
             IF Len(tag.v) = 0 THEN Some(new_initial_collector)
             ELSE CASE tag.t = "List" ->
                           (CASE tag.v[1].t = "End" -> Some(new_initial_collector)
                              [] tag.v[1].t = "Compound" ->
                                     Some([variant |-> "Heterogeneous", result |-> tag.v])
                              [] OTHER ->
                                     Some([variant |-> "Homogeneous", result |-> tag.v]))
                    [] tag.t = "ByteArray" ->
                           Some([variant |-> "Byte",
                                 list |-> [i \in DOMAIN tag.v |->
                                              IF tag.v[i] >= 128 THEN tag.v[i] - 256
                                              ELSE tag.v[i]]])
                    [] tag.t = "IntArray" -> Some([variant |-> "Int", list |-> tag.v])
                    [] tag.t = "LongArray" -> Some([variant |-> "Long", list |-> tag.v])
      [] OTHER -> None

wrap_element(tag) == [t |-> "Compound", v |-> [key \in {""} |-> tag]]

\* is_wrapper(tag) is `tag is a Compound with one child`.
wrap_if_required(tag) ==
    IF ~(tag.t = "Compound" /\ Cardinality(DOMAIN tag.v) = 1) /\ tag.t = "Compound"
    THEN tag
    ELSE wrap_element(tag)

\* From<InnerHomogeneousListCollector>, From<InnerByteListCollector> and the
\* From of the Int and Long collectors, for InnerHeterogeneousListCollector.
heterogeneous_from(collector) ==
    IF collector.variant = "Homogeneous"
    THEN [variant |-> "Heterogeneous", result |-> collector.result]
    ELSE [variant |-> "Heterogeneous",
          result |-> [i \in DOMAIN collector.list |->
                         wrap_element([t |-> collector.variant, v |-> collector.list[i]])]]

\* ListCollector::accept with the accept of each inner collector.
ListCollector_accept(collector, tag) ==
    CASE collector.variant = "Heterogeneous" ->
             [collector EXCEPT !.result = Append(@, wrap_if_required(tag))]
      [] collector.variant = "Homogeneous" ->
             IF tag.t = (IF Len(collector.result) = 0 THEN "End" ELSE collector.result[1].t)
             THEN [collector EXCEPT !.result = Append(@, tag)]
             ELSE heterogeneous_from([collector EXCEPT !.result = Append(@, tag)])
      [] collector.variant = "Initial" ->
             (CASE tag.t = "Compound" -> [variant |-> "Heterogeneous", result |-> <<tag>>]
                [] tag.t \in {"Byte", "Int", "Long"} -> [variant |-> tag.t, list |-> <<tag.v>>]
                [] OTHER -> [variant |-> "Homogeneous", result |-> <<tag>>])
      [] collector.variant \in {"Byte", "Int", "Long"} ->
             IF tag.t = collector.variant
             THEN [collector EXCEPT !.list = Append(@, tag.v)]
             ELSE [variant |-> "Heterogeneous",
                   result |-> Append(heterogeneous_from(collector).result,
                                     wrap_if_required(tag))]

\* accept_all over the first n tags.
RECURSIVE accept_all(_, _, _)
accept_all(collector, tags, n) ==
    IF n = 0 THEN collector
    ELSE ListCollector_accept(accept_all(collector, tags, n - 1), tags[n])

ListCollector_result(collector) ==
    CASE collector.variant \in {"Heterogeneous", "Homogeneous"} ->
             [t |-> "List", v |-> collector.result]
      [] collector.variant = "Initial" -> [t |-> "List", v |-> <<>>]
      [] collector.variant = "Byte" ->
             [t |-> "ByteArray", v |-> [i \in DOMAIN collector.list |-> collector.list[i] % 256]]
      [] collector.variant = "Int" -> [t |-> "IntArray", v |-> collector.list]
      [] collector.variant = "Long" -> [t |-> "LongArray", v |-> collector.list]

\* NbtOps::try_unwrap
try_unwrap(compound) ==
    IF Cardinality(DOMAIN compound) = 1 /\ "" \in DOMAIN compound
    THEN compound[""]
    ELSE [t |-> "Compound", v |-> compound]

\* NbtOps::get_iter: the iterator is the sequence of the items it yields.
NbtOps_get_iter(input) ==
    CASE input.t = "List" ->
             IF Len(input.v) # 0 /\ input.v[1].t = "Compound"
             THEN success([i \in DOMAIN input.v |->
                              IF input.v[i].t = "Compound" THEN try_unwrap(input.v[i].v)
                              ELSE input.v[i]])
             ELSE success(input.v)
      [] input.t = "ByteArray" ->
             success([i \in DOMAIN input.v |->
                         [t |-> "Byte",
                          v |-> IF input.v[i] >= 128 THEN input.v[i] - 256 ELSE input.v[i]]])
      [] input.t = "IntArray" ->
             success([i \in DOMAIN input.v |-> [t |-> "Int", v |-> input.v[i]]])
      [] input.t = "LongArray" ->
             success([i \in DOMAIN input.v |-> [t |-> "Long", v |-> input.v[i]]])
      [] OTHER -> error(<<"Not a list: ", ToString(input)>>)

\* NbtOps::map_builder (JsonOps has none in the source).
map_builder(ops) ==
    CASE ops.kind = "nbt" ->
        [kind |-> "nbt", ops |-> ops,
         builder |-> success_with_lifecycle([t |-> "Compound", v |-> <<>>], Stable)]

\* MapBuilder::new
MapBuilder_new(ops) ==
    [kind |-> "map", ops |-> ops, builder |-> success_with_lifecycle(<<>>, Stable)]

\* MapEncoder::builder
builder(ops) ==
    IF compress_maps(ops) THEN MapBuilder_new(ops) ELSE map_builder(ops)

\* An append that drops the entry.
append_nothing(b, key, value, r) == r

\* StringStructBuilder::append of NbtStructBuilder (key a &str) and
\* UniversalStructBuilder::append of MapBuilder (key a value of the format).
append(b, key, value, r) ==
    IF b.kind = "nbt"
    THEN IF r.t = "Compound"
         THEN [t |-> "Compound", v |-> map_put(r.v, key, value)]
         ELSE r
    ELSE Append(r, <<create_string(b.ops, key), value>>)

\* A builder that ignores what it is given.
add_nothing(b, key, value) == b

\* add_string_key_value_result: both kinds come to
\* builder.apply_2_and_make_stable(|r, v| append(key, v, r), value).
add_string_key_value_result(b, key, value) ==
    [b EXCEPT !.builder =
        apply_2_and_make_stable(
            append(b, key, value_of(value), value_of(b.builder)),
            b.builder, value)]

\* UniversalStructBuilder::append of MapBuilder.
MapBuilder_append(key, value, builder_value) == Append(builder_value, <<key, value>>)

\* impl_universal_struct_builder: the three adds of MapBuilder.
add_key_value(b, key, value) ==
    [b EXCEPT !.builder =
        map(b.builder, MapBuilder_append(key, value, value_of(b.builder)))]

add_key_value_result(b, key, value) ==
    [b EXCEPT !.builder =
        apply_2_and_make_stable(
            MapBuilder_append(key, value_of(value), value_of(b.builder)),
            b.builder, value)]

add_key_result_value_result(b, key, value) ==
    [b EXCEPT !.builder =
        apply(b.builder,
              apply_2_and_make_stable("closure", key, value),
              MapBuilder_append(value_of(key), value_of(value), value_of(b.builder)))]

build_with_builder(b, built, prefix) ==
    IF b.kind = "nbt"
    THEN CASE prefix.t = "End" -> success(built)
           [] prefix.t = "Compound" ->
                  success([t |-> "Compound",
                           v |-> [k \in DOMAIN prefix.v \cup DOMAIN built.v |->
                                     IF k \in DOMAIN built.v THEN built.v[k]
                                     ELSE prefix.v[k]]])
           [] OTHER -> error_partial(<<"Prefix is not a map: ", ToString(prefix)>>,
                                     prefix)
    ELSE merge_entries_into_map(b.ops, prefix, built)

\* StructBuilder::build
build(b, prefix) ==
    flat_map(b.builder, build_with_builder(b, value_of(b.builder), prefix))

\* ----------------------------------------------------------- key compressor

\* KeyCompressor::new over the first n keys: every new key is given the index
\* c.size, which nothing ever increases.
RECURSIVE KeyCompressor_new(_, _)
KeyCompressor_new(key_iter, n) ==
    IF n = 0 THEN [compress_map |-> <<>>, decompress_map |-> <<>>, size |-> 0]
    ELSE LET c == KeyCompressor_new(key_iter, n - 1)
             key == key_iter[n]
         IN  IF key \in DOMAIN c.compress_map THEN c
             ELSE [c EXCEPT !.compress_map = map_put(@, key, c.size),
                            !.decompress_map = map_put(@, c.size, key)]

compress_key_str(c, key) ==
    IF key \in DOMAIN c.compress_map THEN Some(c.compress_map[key]) ELSE None

decompress_key_str(c, key) ==
    IF key \in DOMAIN c.decompress_map THEN Some(c.decompress_map[key]) ELSE None

KeyCompressor_size(c) == c.size

\* CompressorMapLikeImpl as the map from key to value its get_str computes:
\* compress_key_str(key).and_then(|i| list.get(i)).
CompressorMapLikeImpl(list, c) ==
    [key \in {k \in DOMAIN c.compress_map : compress_key_str(c, k).val < Len(list)} |->
        list[compress_key_str(c, key).val + 1]]

\* ------------------------------------------------------- primitive codecs

NumberCodecs == {"Byte", "Short", "Int", "Long"}

ListCodecs == {"bytes", "ints", "longs"}

\* A primitive codec is [c |-> "Bool"], [c |-> "String"], [c |-> k] for k in
\* NumberCodecs (ByteCodec .. LongCodec), or [c |-> e] for e in ListCodecs
\* (ByteBufferCodec, IntStreamCodec, LongStreamCodec).
write(codec, ops, value) ==
    CASE codec.c = "Bool" -> create_bool(ops, value)
      [] codec.c = "String" -> create_string(ops, value)
      [] codec.c \in NumberCodecs -> create_typed(ops, codec.c, value)
      [] codec.c \in ListCodecs -> create_packed(ops, codec.c, value)

\* The closure of a number codec's read, mapped over the number got.
number_from(codec, n) ==
    map(n, CASE codec.c = "Byte" -> i8_from(value_of(n))
             [] codec.c = "Short" -> i16_from(value_of(n))
             [] codec.c = "Int" -> i32_from(value_of(n))
             [] codec.c = "Long" -> i64_from(value_of(n)))

read(codec, ops, input) ==
    CASE codec.c = "Bool" -> get_bool(ops, input)
      [] codec.c = "String" -> get_string(ops, input)
      [] codec.c \in NumberCodecs -> number_from(codec, get_number(ops, input))
      [] codec.c \in ListCodecs -> get_packed(ops, codec.c, input)

primitive_encode(codec, input, ops, prefix) ==
    merge_into_primitive(ops, prefix, write(codec, ops, input))

\* The closure |r| (r, ops.empty()), mapped over what was read.
with_empty_rest(r, ops) == map(r, <<value_of(r), empty(ops)>>)

primitive_decode(codec, input, ops) == with_empty_rest(read(codec, ops, input), ops)

\* ------------------------------------------------------------------ codecs

RECURSIVE encode(_, _, _, _)
RECURSIVE decode(_, _, _)
RECURSIVE keys(_)
RECURSIVE map_encode(_, _, _, _)
RECURSIVE map_decode(_, _, _)
RECURSIVE compressed_decode(_, _, _)
RECURSIVE add_data_results(_, _, _, _)
RECURSIVE decode_elements(_, _, _, _)
RECURSIVE either_decode(_, _, _)

encode_start(codec, input, ops) == encode(codec, input, ops, empty(ops))

\* The closure |r| r.0, mapped over a decoded pair.
first_of(r) == map(r, value_of(r)[1])

parse(codec, input, ops) == first_of(decode(codec, input, ops))

\* Codec constructors.  A map codec is a record tagged by m, a codec one
\* tagged by c.  The value of a struct codec is the tuple of its fields'
\* values: getter i is the i-th component and the apply function builds the
\* tuple.
field(codec, name) == [m |-> "field", name |-> name, codec |-> codec]

optional_field(codec, name) ==
    [m |-> "optional", name |-> name, codec |-> codec, lenient |-> FALSE]

lenient_optional_field(codec, name) ==
    [m |-> "optional", name |-> name, codec |-> codec, lenient |-> FALSE]

optional_field_with_default(codec, name, factory) ==
    [m |-> "default", codec |-> optional_field(codec, name), default |-> factory]

struct_codec(fields) == [c |-> "map", codec |-> [m |-> "struct", fields |-> fields]]

\* The value of a key dispatch codec is [key, body]: the variant's key() and
\* the tuple of the variant's fields; `variants` maps each key to the struct
\* map codec of its variant.
new_key_dispatch_map_codec(key_codec, variants) ==
    [m |-> "dispatch", key_codec |-> key_codec, variants |-> variants]

list(codec, min_size, max_size) ==
    [c |-> "list", codec |-> codec, min_size |-> min_size, max_size |-> max_size]

create_too_short_error(codec, size) ==
    error(<<"List is too short: ", ToString(size), ", expected range [",
            ToString(codec.min_size), "-", ToString(codec.max_size), "]">>)

\* The too-long error with the too-short error's text.
create_mistaken_error(codec, size) ==
    error(<<"List is too short: ", ToString(size)>>)

create_too_long_error(codec, size) ==
    error(<<"List is too long: ", ToString(size), ", expected range [",
            ToString(codec.min_size), "-", ToString(codec.max_size), "]">>)

int_range(min, max) ==
    [c |-> "range", codec |-> [c |-> "Int"], min |-> min, max |-> max]

check_range(input, min, max) ==
    IF input >= min /\ input <= max THEN success(input)
    ELSE error(<<"Value ", ToString(input), " is outside range [",
                 ToString(min), ", ", ToString(max), "]">>)

\* validate(codec, validator): the validator is given by the set of values
\* it returns Ok(()) for and the message it returns for the others.
validate(codec, valid, message) ==
    [c |-> "validated", codec |-> codec, valid |-> valid, message |-> message]

\* Keyable::keys
keys(mc) ==
    CASE mc.m \in {"field", "optional"} -> <<mc.name>>
      [] mc.m = "default" -> keys(mc.codec)
      [] mc.m = "dispatch" -> keys(mc.key_codec) \o <<"value">>
      [] mc.m = "struct" ->
             IF Len(mc.fields) = 0 THEN <<>>
             ELSE keys([mc EXCEPT !.fields = SubSeq(@, 1, Len(@) - 1)])
                      \o keys(mc.fields[Len(mc.fields)])

\* The table impl_compressor builds for a holder that has none: the closure
\* given to or_insert_with.
compressor(mc) == KeyCompressor_new(keys(mc), Len(keys(mc)))

\* KEY_COMPRESSOR_CACHE.entry(key).or_insert_with(..) for the holder `mc`
\* living at the address `key`: the cache afterwards.
cache_entry(entries, key, mc) ==
    IF key \in DOMAIN entries THEN entries ELSE map_put(entries, key, compressor(mc))

\* MapEncoder::encode.  A struct threads the builder through its fields in
\* declaration order: the builder after field n is field n's encode of the
\* builder after the fields before it.
map_encode(mc, input, ops, prefix) ==
    CASE mc.m = "field" ->
             add_string_key_value_result(prefix, mc.name,
                                         encode_start(mc.codec, input, ops))
      [] mc.m = "optional" ->
             IF input.some
             THEN add_string_key_value_result(prefix, mc.name,
                                              encode_start(mc.codec, input.val, ops))
             ELSE prefix
      [] mc.m = "default" ->
             map_encode(mc.codec, IF input = mc.default THEN None ELSE Some(input),
                        ops, prefix)
      [] mc.m = "struct" ->
             LET n == Len(mc.fields)
             IN  IF n = 0 THEN prefix
                 ELSE map_encode(mc.fields[n], input[n], ops,
                                 map_encode([mc EXCEPT !.fields = SubSeq(@, 1, n - 1)],
                                            input, ops, prefix))

      [] mc.m = "dispatch" ->
             \* T::map_encode is the variant's map codec; T::encode is that
             \* map codec as an encoder, from an empty prefix.
             LET inner == map_encode(mc.variants[input.key], input.body, ops, prefix)
             IN  IF compress_maps(ops)
                 THEN add_string_key_value_result(
                          inner, "value",
                          build(map_encode(mc.variants[input.key], input.body, ops,
                                           builder(ops)),
                                empty(ops)))
                 ELSE map_encode(mc.key_codec, input.key, ops, inner)

\* MapDecoder::decode
invalid_differentiator_with_partial(key) ==
    error_partial(<<"Invalid differentiator value ", key>>, [key |-> key, body |-> <<>>])

\* The `&_` arm of the generated decode and map_decode of a KeyDispatchable.
invalid_differentiator(key) == error(<<"Invalid differentiator value ", key>>)

none_when_error(result, lenient) ==
    IF is_error(result) THEN success(None) ELSE map(result, Some(value_of(result)))

\* What OptionalFieldMapCodec::decode makes of the result of parsing the
\* value found under its name.
some_or_lenient(result, lenient) ==
    IF is_error(result) /\ lenient THEN success(None)
    ELSE map(result, Some(value_of(result)))

map_decode(mc, input, ops) ==
    CASE mc.m = "field" ->
             LET v == get_str(input, mc.name)
             IN  IF v.some THEN parse(mc.codec, v.val, ops)
                 ELSE error(<<"No key ", mc.name, " in map">>)
      [] mc.m = "optional" ->
             LET value == get_str(input, mc.name)
             IN  IF ~value.some THEN success(None)
                 ELSE some_or_lenient(parse(mc.codec, value.val, ops), mc.lenient)
      [] mc.m = "default" ->
             LET r == map_decode(mc.codec, input, ops)
             IN  map(r, IF value_of(r).some THEN value_of(r).val ELSE mc.default)
      [] mc.m = "struct" ->
             LET rs == [i \in 1..Len(mc.fields) |-> map_decode(mc.fields[i], input, ops)]
             IN  IF Len(rs) = 1 THEN map(rs[1], <<value_of(rs[1])>>)
                 ELSE apply_n(values_of(rs), rs)

      [] mc.m = "dispatch" ->
             LET r == map_decode(mc.key_codec, input, ops)
                 key == value_of(r)
                 v == get_str(input, "value")
                 \* T::decode and T::map_decode: the variant's map codec as a
                 \* decoder, or applied to the map itself.
                 decoded == IF compress_maps(ops)
                            THEN compressed_decode(mc.variants[key], v.val, ops)
                            ELSE map_decode(mc.variants[key], input, ops)
             IN  flat_map(r,
                     IF compress_maps(ops) /\ ~v.some
                     THEN error(<<"Input doesn't have a 'value' key">>)
                     ELSE IF key \notin DOMAIN mc.variants
                     THEN invalid_differentiator(key)
                     ELSE map(decoded, [key |-> key, body |-> value_of(decoded)]))

compressed_decode(mc, input, ops) ==
    IF compress_maps(ops)
    THEN LET iter == into_result(get_iter(ops, input))
         IN  IF ~iter.some THEN error(<<"Input is not a list">>)
             ELSE map_decode(mc, CompressorMapLikeImpl(iter.val, compressor(mc)), ops)
    ELSE LET m == with_lifecycle(get_map(ops, input), Stable)
         IN  flat_map(m, map_decode(mc, value_of(m), ops))

\* The elements of the list builder of ListCodec::encode after the first n
\* elements of the input went through add_data_result.
add_data_results(codec, input, ops, n) ==
    IF n = 0 THEN success(<<>>)
    ELSE LET elements == add_data_results(codec, input, ops, n - 1)
             value == encode_start(codec.codec, input[n], ops)
         IN  apply_2_and_make_stable(Append(value_of(elements), value_of(value)),
                                     elements, value)

\* A loop that puts each decoded element before the ones it has.
decode_elements_prepending(codec, i, ops, n) ==
    IF n = 0 THEN [elements |-> <<>>, failed |-> <<>>, result |-> success(<<>>)]
    ELSE LET before == decode_elements(codec, i, ops, n - 1)
             element_result == decode(codec.codec, i[n], ops)
             kept == into_result_or_partial(element_result)
         IN  IF Len(before.elements) >= codec.max_size
             THEN [before EXCEPT !.failed = Append(@, i[n])]
             ELSE [elements |-> IF kept.some THEN <<kept.val[1]>> \o before.elements
                                ELSE before.elements,
                   failed |-> before.failed,
                   result |-> add_message(before.result, element_result)]

\* The loop of ListCodec::decode after the first n elements of the iterator
\* (total_count is n).
decode_elements(codec, i, ops, n) ==
    IF n = 0 THEN [elements |-> <<>>, failed |-> <<>>, result |-> success(<<>>)]
    ELSE LET before == decode_elements(codec, i, ops, n - 1)
             element_result == decode(codec.codec, i[n], ops)
             kept == into_result_or_partial(element_result)
         IN  IF Len(before.elements) >= codec.max_size
             THEN [before EXCEPT !.failed = Append(@, i[n])]
             ELSE [elements |-> IF kept.some THEN Append(before.elements, kept.val[1])
                                ELSE before.elements,
                   failed |-> before.failed,
                   result |-> add_message(before.result, element_result)]

\* Either::Left(value) and Either::Right(value).
Left(value) == [side |-> "Left", v |-> value]
Right(value) == [side |-> "Right", v |-> value]

new_either_codec(left_codec, right_codec) ==
    [c |-> "either", left_codec |-> left_codec, right_codec |-> right_codec]

\* A Decoder implementation of the caller whose decode returns `parsed`
\* along with the input it was given.
decoder_returning(parsed) == [c |-> "decoder", parsed |-> parsed]

has_result_or_partial(r) == ~(is_error(r) /\ ~r.partial_result.some)

\* The closures of EitherCodec::decode: |(l, t)| (Either::Left(l), t) and
\* |(r, t)| (Either::Right(r), t), mapped over a decoding result.
map_left(l) == map(l, <<Left(value_of(l)[1]), value_of(l)[2]>>)
map_right(r) == map(r, <<Right(value_of(r)[1]), value_of(r)[2]>>)

\* What EitherCodec::decode does with the result `left`, and with `right`
\* where it asks for it: the result returned, and the codecs whose decode
\* was called to get it, in order.
either_result(left, right) ==
    IF is_success(left) THEN [result |-> left, consulted |-> <<"left">>]
    ELSE [result |->
              IF is_success(right) THEN right
              ELSE IF has_result_or_partial(left) THEN left
              ELSE IF has_result_or_partial(right) THEN right
              ELSE error(<<"Failed to parse either. First: ">> \o left.message
                         \o <<"; Second: ">> \o right.message),
          consulted |-> <<"left", "right">>]

either_decode_left_only(codec, input, ops) ==
    [result |-> map_left(decode(codec.left_codec, input, ops)),
     consulted |-> <<"left">>]

\* EitherCodec::decode
either_decode(codec, input, ops) ==
    either_result(map_left(decode(codec.left_codec, input, ops)),
                  map_right(decode(codec.right_codec, input, ops)))

\* Encoder::encode of the codec `codec` describes.
encode(codec, input, ops, prefix) ==
    CASE codec.c \in {"Bool", "String"} \cup NumberCodecs \cup ListCodecs ->
             primitive_encode(codec, input, ops, prefix)
      [] codec.c = "map" ->
             build(map_encode(codec.codec, input, ops, builder(ops)), prefix)
      [] codec.c = "list" ->
             LET size == Len(input)
                 elements == add_data_results(codec, input, ops, size)
             IN  IF size < codec.min_size THEN create_too_short_error(codec, size)
                 ELSE IF size > codec.max_size THEN create_too_long_error(codec, size)
                 ELSE flat_map(elements,
                               merge_values_into_list(ops, prefix, value_of(elements)))
      [] codec.c = "range" ->
             LET checked == check_range(input, codec.min, codec.max)
             IN  flat_map(checked, encode(codec.codec, value_of(checked), ops, prefix))
      [] codec.c = "validated" ->
             IF input \in codec.valid THEN encode(codec.codec, input, ops, prefix)
             ELSE error(codec.message)
      [] codec.c = "either" ->
             IF input.side = "Left"
             THEN encode(codec.left_codec, input.v, ops, prefix)
             ELSE encode(codec.right_codec, input.v, ops, prefix)

\* The closure |r| (r, input.clone()), mapped over a decoded value.
with_rest(r, input) == map(r, <<value_of(r), input>>)

\* The closure of RangeCodec::decode, flat-mapped over the decoded pair `r`.
checked_in_range(r, min, max) ==
    LET checked == check_range(value_of(r)[1], min, max)
    IN  flat_map(r, map(checked, <<value_of(checked), value_of(r)[2]>>))

\* A validated codec that validates nothing.
validated_unchecked(r, codec) == r

\* The closure of ValidatedCodec::decode, flat-mapped over the decoded pair.
validated(r, codec) ==
    flat_map(r, IF value_of(r)[1] \in codec.valid THEN success(value_of(r))
                ELSE error(codec.message))

\* Decoder::decode of the codec `codec` describes: a pair <<value, rest>>.
decode(codec, input, ops) ==
    CASE codec.c \in {"Bool", "String"} \cup NumberCodecs \cup ListCodecs ->
             primitive_decode(codec, input, ops)
      [] codec.c = "map" ->
             with_rest(compressed_decode(codec.codec, input, ops), input)
      [] codec.c = "list" ->
             LET iter == with_lifecycle(get_iter(ops, input), Stable)
                 total_count == Len(value_of(iter))
                 loop == decode_elements(codec, value_of(iter), ops, total_count)
                 pair == <<loop.elements, create_list(ops, loop.failed)>>
             IN  flat_map(
                     iter,
                     IF Len(loop.elements) < codec.min_size
                     THEN create_too_short_error(codec, Len(loop.elements))
                     ELSE with_complete_or_partial(
                              IF total_count > codec.max_size
                              THEN create_too_long_error(codec, total_count)
                              ELSE loop.result,
                              pair))
      [] codec.c = "range" ->
             checked_in_range(decode(codec.codec, input, ops), codec.min, codec.max)
      [] codec.c = "validated" -> validated(decode(codec.codec, input, ops), codec)
      [] codec.c = "either" -> either_decode(codec, input, ops).result
      [] codec.c = "decoder" -> with_rest(codec.parsed, input)

\* encode_start, and parse of what it returned when it succeeded.
round_trip(codec, value, ops) ==
    LET encoded == encode_start(codec, value, ops)
    IN  [encoded |-> encoded,
         decoded |-> IF is_success(encoded)
                     THEN parse(codec, encoded.result, ops)
                     ELSE encoded]

\* ------------------------------------------------------------------ inputs

\* The i-th input of an apply_n call: a success, an error with a partial
\* value, or an error without one.
ResultInputs(i) ==
    UNION {{success_with_lifecycle(i, l),
            error_partial_with_lifecycle(<<"error ", ToString(i)>>, 0 - i, l),
            error_with_lifecycle(<<"error ", ToString(i)>>, l)} : l \in {Stable, Experimental}}

RECURSIVE ResultSeqs(_)
ResultSeqs(n) ==
    IF n = 0 THEN {<<>>}
    ELSE {Append(s, r) : s \in ResultSeqs(n - 1), r \in ResultInputs(n)}

Lifecycles == {Stable, Experimental, Deprecated(1), Deprecated(2)}

\* Results of every kind under every lifecycle, and the sequences of up to
\* MaxDated of those that carry a value.
DatedResults ==
    UNION {{success_with_lifecycle(1, l),
            error_partial_with_lifecycle(<<"error">>, 0 - 1, l),
            error_with_lifecycle(<<"error">>, l)} : l \in Lifecycles}

DatedSeqs(n) ==
    IF n > MaxDated THEN {}
    ELSE [1..n -> {r \in DatedResults : has_result_or_partial(r)}]

\* The primitive codecs an adapter has every operation for in the source
\* (NbtOps has no get_bool and builds lists elsewhere).
PrimitiveCodecsOf(ops) ==
    {[c |-> k] : k \in IF ops.kind = "json"
                       THEN {"Bool", "String"} \cup NumberCodecs \cup ListCodecs
                       ELSE {"String"} \cup NumberCodecs}

PrimitiveInputs(c) ==
    CASE c = "Bool" -> {TRUE, FALSE}
      [] c = "String" -> {"", "a", "7"}
      [] c = "Byte" -> {0 - 128, 0 - 1, 0, 127}
      [] c = "Short" -> {0 - 32768, 0 - 1, 0, 32767}
      [] c = "Int" -> {i32_min, 0 - 1, 0, 1, I32_MAX}
      [] c = "Long" ->
             {i64_of(0), i64_of(1), i64_of(0 - 1), i64_of(I32_MAX), i64_of(i32_min),
              wide(FALSE, {F64_MANTISSA_DIGITS}), wide(FALSE, {F64_MANTISSA_DIGITS, 0}),
              wide(TRUE, {F64_MANTISSA_DIGITS, 1, 0}), wide(FALSE, 0..62),
              wide(TRUE, {63})}
      [] c = "bytes" -> {<<>>, <<1>>, <<0 - 128, 127>>}
      [] c = "ints" -> {<<>>, <<5>>, <<I32_MAX, 0, 0 - 7>>}
      [] c = "longs" -> {<<>>, <<i64_of(1)>>,
                         <<wide(FALSE, 0..62), wide(FALSE, {F64_MANTISSA_DIGITS, 0})>>}

FieldNames == <<"f1", "f2", "f3", "f4", "f5">>

\* The field map codecs the struct codecs are built from, by kind.
FieldOf(kind, name) ==
    CASE kind = "int" -> field([c |-> "Int"], name)
      [] kind = "string" -> field([c |-> "String"], name)
      [] kind = "long" -> field([c |-> "Long"], name)
      [] kind = "range" -> field(int_range(0, 8), name)
      [] kind = "nested" -> field(struct_codec(<<field([c |-> "Short"], "a")>>), name)
      [] kind = "opt" -> optional_field([c |-> "Short"], name)
      [] kind = "lenient" -> lenient_optional_field([c |-> "Int"], name)
      [] kind = "def" -> optional_field_with_default([c |-> "Byte"], name, 5)

FieldValues(kind) ==
    CASE kind = "int" -> {0 - 1, 7}
      [] kind = "string" -> {"", "a"}
      [] kind = "long" -> {i64_of(0 - 2), wide(FALSE, {F64_MANTISSA_DIGITS, 0})}
      [] kind = "range" -> {3, 9}
      [] kind = "nested" -> {<<1>>, <<2>>}
      [] kind = "opt" -> {None, Some(3)}
      [] kind = "lenient" -> {None, Some(4)}
      [] kind = "def" -> {5, 6}

RECURSIVE Shapes(_, _)
Shapes(kinds, n) ==
    IF n = 0 THEN {<<>>}
    ELSE {Append(s, k) : s \in Shapes(kinds, n - 1), k \in kinds}

\* The struct map codec with one field of each kind of `shape`, in order.
StructOf(shape) ==
    [m |-> "struct", fields |-> [i \in DOMAIN shape |-> FieldOf(shape[i], FieldNames[i])]]

RECURSIVE ShapeValues(_, _)
ShapeValues(shape, n) ==
    IF n = 0 THEN {<<>>}
    ELSE {Append(t, v) : t \in ShapeValues(shape, n - 1), v \in FieldValues(shape[n])}

\* The variants of the key dispatch tests, by key.
ShapeVariants ==
    [key \in {"circle", "rectangle"} |->
        IF key = "circle"
        THEN [m |-> "struct", fields |-> <<field([c |-> "Int"], "radius")>>]
        ELSE [m |-> "struct", fields |-> <<field([c |-> "Int"], "width"),
                                          field([c |-> "Int"], "height")>>]]

SHAPE_CODEC ==
    [c |-> "map",
     codec |-> new_key_dispatch_map_codec(field([c |-> "String"], "type"), ShapeVariants)]

\* The list codecs of the list actions: an element codec that encodes every
\* int and one that fails outside [0, 8], under three pairs of size bounds.
ListCodecsOf ==
    {list(c, b[1], b[2]) : c \in {[c |-> "Int"], int_range(0, 8)},
                           b \in {<<0, 2>>, <<1, 3>>, <<2, 2>>}}

\* A list of one or two elements whose decoder gives a partial value for
\* every element.
PartialElements == list(decoder_returning(error_partial(<<"partial element">>, 5)), 1, 2)

\* The range and validated codecs of the actions on them: an int range, the
\* even ints, the even ints of an int range, and the lists of 1s among the
\* lists of up to two ints.
Evens == {i \in (0 - MaxChecked)..MaxChecked : i % 2 = 0}

CheckedCodecs ==
    {int_range(0, MaxChecked - 1),
     validate([c |-> "Int"], Evens, <<"Not an even number">>),
     validate(int_range(0, 3), Evens, <<"Not an even number">>),
     validate(list([c |-> "Int"], 0, 2), {<<>>, <<1>>, <<1, 1>>, <<1, 1, 1>>},
              <<"Not all ones">>)}

\* The values given to the encoder of one of them.
CheckedValues(codec) ==
    IF codec.codec.c = "list" THEN UNION {[1..n -> {1, 2}] : n \in 0..3}
    ELSE (0 - 1)..(MaxChecked + 1)

\* The inputs given to the decoder of one of them, by index.
CheckedInputs ==
    [i \in 1..(MaxChecked + 3) |-> [t |-> "Number", v |-> i64_of(i - 2)]]
    \o <<[t |-> "String", v |-> "a"],
         [t |-> "Array", v |-> <<>>],
         [t |-> "Array", v |-> <<[t |-> "Number", v |-> i64_of(1)]>>],
         [t |-> "Array", v |-> <<[t |-> "Number", v |-> i64_of(2)]>>],
         [t |-> "Array", v |-> <<[t |-> "Number", v |-> i64_of(1)],
                                 [t |-> "Number", v |-> i64_of(1)]>>],
         [t |-> "Array", v |-> <<[t |-> "Number", v |-> i64_of(1)],
                                 [t |-> "String", v |-> "a"]>>],
         [t |-> "Array", v |-> <<[t |-> "Number", v |-> i64_of(1)],
                                 [t |-> "Number", v |-> i64_of(1)],
                                 [t |-> "Number", v |-> i64_of(1)]>>]>>

\* The JSON arrays given to a list decoder: `choice` picks each element.
JsonValues ==
    <<[t |-> "Number", v |-> i64_of(1)], [t |-> "Number", v |-> i64_of(9)],
      [t |-> "String", v |-> "a"]>>

ArrayInput(choice) ==
    [t |-> "Array", v |-> [i \in DOMAIN choice |-> JsonValues[choice[i]]]]

\* The maps given to a map decoder: `choice` binds some of the first MaxFields
\* names, each to one of DecodeValues.
DecodeValues ==
    <<[t |-> "Int", v |-> 7], [t |-> "Int", v |-> 9], [t |-> "String", v |-> "a"]>>

CompoundInput(choice) ==
    [t |-> "Compound", v |-> [k \in DOMAIN choice |-> DecodeValues[choice[k]]]]

\* ----------------------------------------------------------------- actions

\* The calls made on a MapBuilder: add_key_value with each key, a string or
\* not; add_key_value_result with each kind of value result;
\* add_key_result_value_result with each kind of key and of value result.
\* "S" is a Success, "P" an Error with a partial, "E" an Error without.
AddCalls ==
    {[f |-> "add_key_value", key |-> k, kres |-> "S", vres |-> "S"] : k \in 1..3}
    \cup {[f |-> "add_key_value_result", key |-> 1, kres |-> "S", vres |-> v] :
             v \in {"S", "P", "E"}}
    \cup {[f |-> "add_key_result_value_result", key |-> 2, kres |-> k, vres |-> v] :
             k \in {"S", "P", "E"}, v \in {"S", "P", "E"}}

AddSeqs == UNION {[1..n -> AddCalls] : n \in 0..MaxAdds}

KeyOf(ops, call) ==
    CASE call.key = 1 -> create_string(ops, "a")
      [] call.key = 2 -> create_string(ops, "b")
      [] call.key = 3 -> create_bool(ops, TRUE)

\* The i-th call's value, and the results supplied for its key and value.
ValueOf(ops, i) == create_string(ops, ToString(i))

Supplied(kind, message, value) ==
    CASE kind = "S" -> success(value)
      [] kind = "P" -> error_partial(message, value)
      [] kind = "E" -> error(message)

KeyResultOf(ops, calls, i) == Supplied(calls[i].kres, <<"key", ToString(i)>>, KeyOf(ops, calls[i]))

ValueResultOf(ops, calls, i) == Supplied(calls[i].vres, <<"value", ToString(i)>>, ValueOf(ops, i))

\* The builder after the first n calls.
RECURSIVE Added(_, _, _)
Added(ops, calls, n) ==
    IF n = 0 THEN MapBuilder_new(ops)
    ELSE CASE calls[n].f = "add_key_value" ->
                  add_key_value(Added(ops, calls, n - 1), KeyOf(ops, calls[n]), ValueOf(ops, n))
           [] calls[n].f = "add_key_value_result" ->
                  add_key_value_result(Added(ops, calls, n - 1), KeyOf(ops, calls[n]),
                                       ValueResultOf(ops, calls, n))
           [] calls[n].f = "add_key_result_value_result" ->
                  add_key_result_value_result(Added(ops, calls, n - 1),
                                              KeyResultOf(ops, calls, n),
                                              ValueResultOf(ops, calls, n))

\* The tags given to a list collector: the three array element types, a
\* string, and compounds with no, one "" keyed, one other and two entries.
NbtTags ==
    <<[t |-> "Byte", v |-> 1], [t |-> "Byte", v |-> -1], [t |-> "Int", v |-> 7],
      [t |-> "Long", v |-> 7], [t |-> "String", v |-> "s"],
      [t |-> "Compound", v |-> <<>>],
      [t |-> "Compound", v |-> [key \in {""} |-> [t |-> "Byte", v |-> 1]]],
      [t |-> "Compound", v |-> [key \in {"a"} |-> [t |-> "Byte", v |-> 1]]],
      [t |-> "Compound", v |-> [key \in {"a", "b"} |-> [t |-> "Byte", v |-> 1]]]>>

\* The tags picked by `choice`, in its order.
NbtTagSeq(choice) == [i \in DOMAIN choice |-> NbtTags[choice[i]]]

\* The prefixes a ListCollector is made for: empty, lists and arrays.
ListPrefixes ==
    <<[t |-> "End"], [t |-> "List", v |-> <<>>],
      [t |-> "List", v |-> <<[t |-> "String", v |-> "p"], [t |-> "String", v |-> "q"]>>],
      [t |-> "List", v |-> <<[t |-> "Compound", v |-> [key \in {"a", "b"} |-> [t |-> "Byte", v |-> 1]]]>>],
      [t |-> "ByteArray", v |-> <<255, 1>>],
      [t |-> "IntArray", v |-> <<7>>],
      [t |-> "LongArray", v |-> <<7>>]>>

\* Numbers that hold an integer: the ends of each type's range, the values
\* around the ends of the narrower types' ranges, and longs with every set of
\* the bits 0, 7, 15, 31, 32 and 62 in their magnitude.
NarrowNumbers ==
    {[k |-> "Byte", v |-> n] : n \in {0 - 128, 0 - 1, 0, 1, 127}}
    \cup {[k |-> "Short", v |-> n] : n \in {0 - 32768, 0 - 129, 0 - 128, 127, 128, 255, 256, 32767}}
    \cup {[k |-> "Int", v |-> n] :
             n \in {i32_min, 0 - 65537, 0 - 32769, 0 - 32768, 0 - 129, 0, 128,
                    32768, 65535, 65536, 65663, I32_MAX}}

LongNumbers ==
    {[k |-> "Long", v |-> wide(neg, mag)] :
             neg \in BOOLEAN, mag \in SUBSET {0, 7, 15, 31, 32, 62}}
    \cup {[k |-> "Long", v |-> wide(TRUE, {63})]}

\* The prefixes given to the JSON merges: null, objects, arrays, and values
\* that are neither.
JsonPrefixes ==
    <<[t |-> "Null"],
      [t |-> "Object", v |-> <<>>],
      [t |-> "Object", v |-> [key \in {"p"} |-> [t |-> "String", v |-> "x"]]],
      [t |-> "Array", v |-> <<>>],
      [t |-> "Array", v |-> <<[t |-> "String", v |-> "x"]>>],
      [t |-> "Number", v |-> i64_of(1)],
      [t |-> "String", v |-> "s"]>>

\* Entries with string keys, the i-th with the value "i".
StringEntries(keys_chosen) ==
    [i \in DOMAIN keys_chosen |->
        <<[t |-> "String", v |-> keys_chosen[i]], [t |-> "String", v |-> ToString(i)]>>]

\* The keys given to the JSON merges: a string, and values that are not.
JsonKeys ==
    <<[t |-> "String", v |-> "k"],
      [t |-> "Number", v |-> i64_of(1)],
      [t |-> "Bool", v |-> TRUE],
      [t |-> "Array", v |-> <<[t |-> "String", v |-> "k"]>>],
      [t |-> "Array", v |-> <<>>],
      [t |-> "Null"],
      [t |-> "Object", v |-> <<>>]>>

Init ==
    /\ op = "init"
    /\ arg = <<>>
    /\ res = <<>>
    /\ cache = <<>>
    /\ heap = <<>>
    /\ threads = <<>>
    /\ lock = 0
    /\ lazy = [state |-> "none"]

\* result_1.apply_n(f, result_2, ..., result_n) with f collecting its
\* arguments into a tuple.
ApplyN ==
    /\ op = "init"
    /\ \E n \in 2..MaxArity : \E rs \in ResultSeqs(n) \cup DatedSeqs(n) :
        /\ op' = "apply_n"
        /\ arg' = rs
        /\ res' = apply_n(values_of(rs), rs)
    /\ UNCHANGED <<cache, heap, threads, lock, lazy>>

\* l1.add(l2) and l2.add(l1), l1.add(l2).add(l3) and l1.add(l2.add(l3)), for
\* lifecycles deprecated since 0 .. MaxSince and the two others.
LifecycleAdd ==
    /\ op = "init"
    /\ \E l1, l2, l3 \in {Stable, Experimental} \cup {Deprecated(s) : s \in 0..MaxSince} :
        /\ op' = "add"
        /\ arg' = <<l1, l2, l3>>
        /\ res' = [ab |-> add(l1, l2), ba |-> add(l2, l1),
                   ab_c |-> add(add(l1, l2), l3), a_bc |-> add(l1, add(l2, l3))]
    /\ UNCHANGED <<cache, heap, threads, lock, lazy>>

\* result.flat_map(f), where f returns `second`.
FlatMap ==
    /\ op = "init"
    /\ \E r \in DatedResults : \E second \in DatedResults :
        /\ op' = "flat_map"
        /\ arg' = [result |-> r, second |-> second]
        /\ res' = flat_map(r, second)
    /\ UNCHANGED <<cache, heap, threads, lock, lazy>>

\* CODEC.parse(CODEC.encode_start(value, ops), ops) for a primitive codec.
PrimitiveRoundTrip ==
    /\ op = "init"
    /\ \E ops \in {JSON_INSTANCE, JSON_COMPRESSED, NBT_INSTANCE} : \E codec \in PrimitiveCodecsOf(ops) :
       \E value \in PrimitiveInputs(codec.c) :
        /\ op' = "primitive"
        /\ arg' = [ops |-> ops, codec |-> codec, value |-> value]
        /\ res' = round_trip(codec, value, ops)
    /\ UNCHANGED <<cache, heap, threads, lock, lazy>>

\* CODEC.parse(CODEC.encode_start(t, ops), ops) for a struct codec.
StructRoundTrip ==
    /\ op = "init"
    /\ \E n \in 1..MaxFields :
       \E shape \in Shapes({"int", "string", "long", "range", "nested", "opt", "def"}, n) :
       \E t \in ShapeValues(shape, n) :
        /\ op' = "struct"
        /\ arg' = [ops |-> NBT_INSTANCE, codec |-> struct_codec(StructOf(shape).fields),
                   value |-> t]
        /\ res' = round_trip(struct_codec(StructOf(shape).fields), t, NBT_INSTANCE)
    /\ UNCHANGED <<cache, heap, threads, lock, lazy>>

\* CODEC.parse(CODEC.encode_start(t, ops), ops) for a struct codec, with ops
\* that compress maps.
StructRoundTripCompressed ==
    /\ op = "init"
    /\ \E n \in 1..MaxFields : \E shape \in Shapes({"int", "string"}, n) :
       \E t \in ShapeValues(shape, n) :
        /\ op' = "struct_compressed"
        /\ arg' = [ops |-> JSON_COMPRESSED, codec |-> struct_codec(StructOf(shape).fields),
                   value |-> t]
        /\ res' = round_trip(struct_codec(StructOf(shape).fields), t, JSON_COMPRESSED)
    /\ UNCHANGED <<cache, heap, threads, lock, lazy>>

\* SHAPE_CODEC.parse(SHAPE_CODEC.encode_start(t, ops), ops)
KeyDispatchRoundTrip ==
    /\ op = "init"
    /\ \E ops \in {NBT_INSTANCE, JSON_COMPRESSED} : \E key \in DOMAIN ShapeVariants :
       \E body \in ShapeValues(<<"int", "int">>, Len(ShapeVariants[key].fields)) :
        /\ op' = "dispatch"
        /\ arg' = [ops |-> ops, codec |-> SHAPE_CODEC,
                   value |-> [key |-> key, body |-> body]]
        /\ res' = round_trip(SHAPE_CODEC, [key |-> key, body |-> body], ops)
    /\ UNCHANGED <<cache, heap, threads, lock, lazy>>

\* SHAPE_CODEC's map codec .encode(t, ops, builder(ops)) with ops that
\* compress maps: the builder returned.
KeyDispatchEncode ==
    /\ op = "init"
    /\ \E key \in DOMAIN ShapeVariants :
       \E body \in ShapeValues(<<"int", "int">>, Len(ShapeVariants[key].fields)) :
        /\ op' = "dispatch_encode"
        /\ arg' = [ops |-> JSON_COMPRESSED, codec |-> SHAPE_CODEC.codec,
                   value |-> [key |-> key, body |-> body]]
        /\ res' = map_encode(SHAPE_CODEC.codec, [key |-> key, body |-> body],
                             JSON_COMPRESSED, builder(JSON_COMPRESSED))
    /\ UNCHANGED <<cache, heap, threads, lock, lazy>>

\* LIST_CODEC.encode_start(input, &json_ops::INSTANCE)
ListEncode ==
    /\ op = "init"
    /\ \E codec \in ListCodecsOf : \E n \in 0..MaxLen : \E input \in [1..n -> {1, 9}] :
        /\ op' = "list_encode"
        /\ arg' = [ops |-> JSON_INSTANCE, codec |-> codec, input |-> input]
        /\ res' = encode_start(codec, input, JSON_INSTANCE)
    /\ UNCHANGED <<cache, heap, threads, lock, lazy>>

\* LIST_CODEC.decode(input, &json_ops::INSTANCE)
ListDecode ==
    /\ op = "init"
    /\ \E codec \in ListCodecsOf \cup {PartialElements} : \E n \in 0..MaxLen :
       \E choice \in [1..n -> DOMAIN JsonValues] :
        /\ op' = "list_decode"
        /\ arg' = [ops |-> JSON_INSTANCE, codec |-> codec, input |-> ArrayInput(choice)]
        /\ res' = decode(codec, ArrayInput(choice), JSON_INSTANCE)
    /\ UNCHANGED <<cache, heap, threads, lock, lazy>>

\* map_codec.encode(value, ops, map_codec.builder(ops)): the builder returned.
MapEncode ==
    /\ op = "init"
    /\ \E ops \in {NBT_INSTANCE, JSON_COMPRESSED} :
       \E c \in {[c |-> "Int"], int_range(0, 8)} : \E d \in {0, 7, 9} :
       \E value \in {0, 7, 9} :
        /\ op' = "map_encode"
        /\ arg' = [ops |-> ops, codec |-> optional_field_with_default(c, "x", d),
                   value |-> value]
        /\ res' = map_encode(optional_field_with_default(c, "x", d), value, ops,
                             builder(ops))
    /\ UNCHANGED <<cache, heap, threads, lock, lazy>>

\* map_codec.compressed_decode(input, ops), for a struct of one to MaxFields
\* fields or for a single field map codec.
MapDecode ==
    /\ op = "init"
    /\ \E mc \in {StructOf(shape) :
                     shape \in UNION {Shapes({"int", "range", "lenient"}, n) :
                                         n \in 1..MaxFields}}
                 \cup {FieldOf(kind, FieldNames[1]) :
                          kind \in {"int", "string", "range", "opt", "lenient", "def"}} :
       \E S \in SUBSET {FieldNames[i] : i \in 1..MaxFields} :
       \E choice \in [S -> DOMAIN DecodeValues] :
        /\ op' = "map_decode"
        /\ arg' = [ops |-> NBT_INSTANCE, codec |-> mc, input |-> CompoundInput(choice)]
        /\ res' = compressed_decode(mc, CompoundInput(choice), NBT_INSTANCE)
    /\ UNCHANGED <<cache, heap, threads, lock, lazy>>

\* CODEC.encode_start(value, &json_ops::INSTANCE) for a range or validated
\* codec.
CheckedEncode ==
    /\ op = "init"
    /\ \E codec \in CheckedCodecs : \E value \in CheckedValues(codec) :
        /\ op' = "checked_encode"
        /\ arg' = [ops |-> JSON_INSTANCE, codec |-> codec, value |-> value]
        /\ res' = encode_start(codec, value, JSON_INSTANCE)
    /\ UNCHANGED <<cache, heap, threads, lock, lazy>>

\* CODEC.decode(input, &json_ops::INSTANCE) for a range or validated codec.
CheckedDecode ==
    /\ op = "init"
    /\ \E codec \in CheckedCodecs : \E i \in DOMAIN CheckedInputs :
        /\ op' = "checked_decode"
        /\ arg' = [ops |-> JSON_INSTANCE, codec |-> codec, input |-> CheckedInputs[i]]
        /\ res' = decode(codec, CheckedInputs[i], JSON_INSTANCE)
    /\ UNCHANGED <<cache, heap, threads, lock, lazy>>

\* The codecs an either codec is made of here: two primitive codecs, and
\* decoders returning each kind of result.
EitherSides(i) ==
    {[c |-> "Int"], [c |-> "String"]} \cup {decoder_returning(r) : r \in ResultInputs(i)}

\* either(left, right).decode(input, &json_ops::INSTANCE)
EitherDecode ==
    /\ op = "init"
    /\ \E left \in EitherSides(1) : \E right \in EitherSides(2) :
       \E i \in DOMAIN JsonValues :
        /\ op' = "either_decode"
        /\ arg' = [ops |-> JSON_INSTANCE, codec |-> new_either_codec(left, right),
                   input |-> JsonValues[i]]
        /\ res' = either_decode(new_either_codec(left, right), JsonValues[i],
                                JSON_INSTANCE)
    /\ UNCHANGED <<cache, heap, threads, lock, lazy>>

\* The values bound in the inputs of a key dispatch decoder: two strings
\* naming a variant, two naming none, and a number.
DispatchValues(ops) ==
    <<create_string(ops, "circle"), create_string(ops, "rectangle"),
      create_string(ops, "square"), create_string(ops, ""),
      create_typed(ops, "Int", 7)>>

\* The input of a key dispatch decoder: a map binding the keys `choice` is
\* defined on, or, for ops that compress maps, the list of `choice`.
DispatchInput(ops, choice) ==
    IF compress_maps(ops)
    THEN [t |-> "Array", v |-> [i \in DOMAIN choice |-> DispatchValues(ops)[choice[i]]]]
    ELSE [t |-> IF ops.kind = "json" THEN "Object" ELSE "Compound",
          v |-> [k \in DOMAIN choice |-> DispatchValues(ops)[choice[k]]]]

\* SHAPE_CODEC.parse(input, ops)
KeyDispatchDecode ==
    /\ op = "init"
    /\ \E ops \in {JSON_INSTANCE, JSON_COMPRESSED, NBT_INSTANCE} :
       \E S \in IF compress_maps(ops) THEN {1..n : n \in 0..2}
                 ELSE SUBSET {"type", "radius", "value"} :
       \E choice \in [S -> 1..5] :
        /\ op' = "dispatch_decode"
        /\ arg' = [ops |-> ops, codec |-> SHAPE_CODEC, input |-> DispatchInput(ops, choice)]
        /\ res' = parse(SHAPE_CODEC, DispatchInput(ops, choice), ops)
    /\ UNCHANGED <<cache, heap, threads, lock, lazy>>

\* KeyCompressor::new(key_iter, ops) over up to MaxKeys string keys.
KeyCompressorNew ==
    /\ op = "init"
    /\ \E n \in 0..MaxKeys : \E key_iter \in [1..n -> {"a", "b", "c"}] :
        /\ op' = "compressor"
        /\ arg' = key_iter
        /\ res' = KeyCompressor_new(key_iter, n)
    /\ UNCHANGED <<cache, heap, threads, lock, lazy>>

\* The map codec values that come and go in memory: two optional fields, and
\* a key dispatch codec whose key codec is an optional field with a default.
HeapCodecs ==
    {optional_field([c |-> "Int"], "a"), optional_field([c |-> "Int"], "b"),
     new_key_dispatch_map_codec(
         optional_field_with_default([c |-> "String"], "type", "circle"),
         ShapeVariants)}

\* The holders reached through the value `mc` at `address`, each with the
\* address impl_compressor takes of it: `mc` itself, and for a key dispatch
\* codec the optional field its key codec hands compressor() to.  The key
\* codec is the only sized field of KeyDispatchMapCodec; where the optional
\* field lies inside its DefaultValueProviderMapCodec is the compiler's
\* choice: at its start, or further on (addresses beyond MaxAddress).
HoldersAt(mc, address) ==
    {<<mc, address>>}
    \cup IF mc.m = "dispatch"
         THEN {<<mc.key_codec.codec, address>>,
               <<mc.key_codec.codec, address + MaxAddress>>}
         ELSE {}

\* A map codec value is constructed at a free address.
Construct ==
    /\ op \in {"init", "heap", "compressor_call"}
    /\ \E address \in (1..MaxAddress) \ DOMAIN heap : \E mc \in HeapCodecs :
        heap' = map_put(heap, address, mc)
    /\ op' = "heap"
    /\ arg' = <<>>
    /\ res' = <<>>
    /\ UNCHANGED <<cache, threads, lock, lazy>>

\* A map codec value goes out of scope; its address is free again.
Drop ==
    /\ op \in {"heap", "compressor_call"}
    /\ \E address \in DOMAIN heap :
        heap' = [a \in DOMAIN heap \ {address} |-> heap[a]]
    /\ op' = "heap"
    /\ arg' = <<>>
    /\ res' = <<>>
    /\ UNCHANGED <<cache, threads, lock, lazy>>

\* holder.compressor() as impl_compressor!() defines it.
CompressorCall ==
    /\ op \in {"heap", "compressor_call"}
    /\ \E address \in DOMAIN heap : \E h \in HoldersAt(heap[address], address) :
        /\ op' = "compressor_call"
        /\ arg' = [codec |-> h[1], address |-> h[2]]
        /\ cache' = cache_entry(cache, h[2], h[1])
        /\ res' = cache_entry(cache, h[2], h[1])[h[2]]
    /\ UNCHANGED <<heap, threads, lock, lazy>>

\* MapBuilder::new(ops), a sequence of adds, then build(ops.empty()).  The
\* builder is generic in its ops: it is run with the compressing JsonOps,
\* for which MapEncoder::builder makes it, and with NbtOps.
MapBuilderAdds ==
    /\ op = "init"
    /\ \E ops \in {JSON_COMPRESSED, NBT_INSTANCE} : \E calls \in AddSeqs :
        /\ op' = "map_builder"
        /\ arg' = [ops |-> ops, calls |-> calls]
        /\ res' = [builders |-> [i \in 1..Len(calls) |-> Added(ops, calls, i).builder],
                   built |-> build(Added(ops, calls, Len(calls)), empty(ops))]
    /\ UNCHANGED <<cache, heap, threads, lock, lazy>>

\* ListCollector::new(prefix), accept_all(tags), result(): what NbtOps
\* merge_values_into_list does for a prefix that is a list.
ListCollect ==
    /\ op = "init"
    /\ \E p \in DOMAIN ListPrefixes : \E n \in 0..MaxTags :
       \E choice \in [1..n -> DOMAIN NbtTags] :
        /\ op' = "list_collect"
        /\ arg' = [prefix |-> ListPrefixes[p], tags |-> NbtTagSeq(choice)]
        /\ res' = ListCollector_result(
                      accept_all(ListCollector_new(ListPrefixes[p]).val,
                                 NbtTagSeq(choice), n))
    /\ UNCHANGED <<cache, heap, threads, lock, lazy>>

\* NbtOps::get_iter(NbtOps::create_list(xs)), create_list being
\* new_initial_collector().accept_all(xs).result().
NbtListRoundTrip ==
    /\ op = "init"
    /\ \E n \in 0..MaxTags : \E choice \in [1..n -> DOMAIN NbtTags] :
        /\ op' = "nbt_list"
        /\ arg' = NbtTagSeq(choice)
        /\ res' = NbtOps_get_iter(
                      ListCollector_result(
                          accept_all(new_initial_collector, NbtTagSeq(choice), n)))
    /\ UNCHANGED <<cache, heap, threads, lock, lazy>>

\* r.add_message(&other_result), the two with different values and messages.
AddMessage ==
    /\ op = "init"
    /\ \E r \in DatedResults : \E other_result \in ResultInputs(2) :
        /\ op' = "add_message"
        /\ arg' = [r |-> r, other_result |-> other_result]
        /\ res' = add_message(r, other_result)
    /\ UNCHANGED <<cache, heap, threads, lock, lazy>>

\* i64::from(num), i32::from(num), i16::from(num), i8::from(num) and
\* u8::from(num) for a Number that holds an integer.
NumberInto ==
    /\ op = "init"
    /\ \E narrow \in NarrowNumbers : \E long \in LongNumbers : \E pick \in BOOLEAN :
       LET num == IF pick THEN narrow ELSE long
       IN  /\ op' = "number"
           /\ arg' = num
           /\ res' = [i64 |-> i64_from(num), i32 |-> i32_from(num),
                      i16 |-> i16_from(num), i8 |-> i8_from(num), u8 |-> u8_from(num)]
    /\ UNCHANGED <<cache, heap, threads, lock, lazy>>

\* JsonOps: merge_entries_into_map(prefix, entries), which is what
\* MapBuilder::build(prefix) calls, merge_values_into_list(prefix, values)
\* and merge_into_list(prefix, value) for the entries' values.
JsonMerge ==
    /\ op = "init"
    /\ \E ops \in {JSON_INSTANCE, JSON_COMPRESSED} : \E p \in DOMAIN JsonPrefixes :
       \E n \in 0..MaxEntries : \E keys_chosen \in [1..n -> {"a", "b"}] :
        /\ op' = "json_merge"
        /\ arg' = [ops |-> ops, prefix |-> JsonPrefixes[p],
                   entries |-> StringEntries(keys_chosen)]
        /\ res' = [map |-> merge_entries_into_map(ops, JsonPrefixes[p],
                                                  StringEntries(keys_chosen)),
                   values |-> merge_values_into_list(
                                  ops, JsonPrefixes[p],
                                  [i \in 1..n |-> StringEntries(keys_chosen)[i][2]]),
                   list |-> merge_into_list(ops, JsonPrefixes[p],
                                            [t |-> "String", v |-> "1"])]
    /\ UNCHANGED <<cache, heap, threads, lock, lazy>>

\* JsonOps: merge_into_map(empty, key, value) and merge_map_like_into_map(
\* empty, {key: value}) for a key of every kind.
JsonMergeKey ==
    /\ op = "init"
    /\ \E ops \in {JSON_INSTANCE, JSON_COMPRESSED} : \E k \in DOMAIN JsonKeys :
        /\ op' = "json_key"
        /\ arg' = [ops |-> ops, key |-> JsonKeys[k]]
        /\ res' = [map |-> merge_into_map(ops, empty(ops), JsonKeys[k],
                                          [t |-> "String", v |-> "1"]),
                   map_like |-> merge_map_like_into_map(
                                    ops, empty(ops),
                                    <<<<JsonKeys[k], [t |-> "String", v |-> "1"]>>>>)]
    /\ UNCHANGED <<cache, heap, threads, lock, lazy>>

\* The functions given to lazy(): one that builds the same codec whenever it
\* runs, and one whose codec depends on how often it has run (it reads a
\* static counter).  A thunk is the sequence of codecs its runs return.
Thunks == {<<int_range(0, 5), int_range(0, 5)>>, <<int_range(0, 5), int_range(0, 9)>>}

\* The codec the run after `runs` earlier runs of the thunk `f` returns.
thunk_call(f, runs) == f[IF runs < Len(f) THEN runs + 1 ELSE Len(f)]

\* The calls made on a lazy codec: encode_start of a value, or decode of an
\* encoded value, with the plain JsonOps.
LazyCalls ==
    <<[kind |-> "encode", input |-> 3], [kind |-> "encode", input |-> 7],
      [kind |-> "decode",
       input |-> encode_start([c |-> "Int"], 7, JSON_INSTANCE).result]>>

\* What a call returns when it is delegated to the codec `codec`.
delegate(codec, call) ==
    IF call.kind = "encode" THEN encode_start(codec, call.input, JSON_INSTANCE)
    ELSE decode(codec, call.input, JSON_INSTANCE)

\* lazy(f): a LazyCodec around LazyLock::new(f), shared by MaxThreads
\* threads.  The cell starts uninitialised.
NewLazyCodec ==
    /\ op = "init"
    /\ \E f \in Thunks :
        lazy' = [state |-> "uninit", f |-> f, runs |-> 0]
    /\ threads' = [t \in 1..MaxThreads |-> [pc |-> "idle"]]
    /\ op' = "lazy"
    /\ UNCHANGED <<arg, res, cache, heap, lock>>

\* A force that runs the function on every call, whether the cell is
\* initialised or not.
LazyForce_rerunning ==
    /\ op = "lazy"
    /\ \E t \in DOMAIN threads : \E i \in DOMAIN LazyCalls :
        /\ threads[t].pc \in {"idle", "done"}
        /\ lazy.state # "running"
        /\ threads' = [threads EXCEPT ![t] = [pc |-> "thunk", call |-> LazyCalls[i]]]
        /\ lazy' = [lazy EXCEPT !.state = "running"]
    /\ UNCHANGED <<op, arg, res, cache, heap, lock>>

\* A thread calls encode or decode on the lazy codec: the call dereferences
\* self.codec, which forces the LazyLock.  On an uninitialised cell the
\* calling thread takes the initialisation on itself; on an initialised one
\* it goes on with the stored codec; while another thread initialises, the
\* call waits.
LazyForce ==
    /\ op = "lazy"
    /\ \E t \in DOMAIN threads : \E i \in DOMAIN LazyCalls :
        /\ threads[t].pc \in {"idle", "done"}
        /\ lazy.state # "running"
        /\ IF lazy.state = "uninit"
           THEN /\ threads' = [threads EXCEPT ![t] = [pc |-> "thunk", call |-> LazyCalls[i]]]
                /\ lazy' = [lazy EXCEPT !.state = "running"]
           ELSE /\ threads' = [threads EXCEPT ![t] = [pc |-> "ready", call |-> LazyCalls[i]]]
                /\ UNCHANGED lazy
    /\ UNCHANGED <<op, arg, res, cache, heap, lock>>

\* The initialising thread's run of the function returns: the cell stores
\* the codec and is initialised.
LazyInit ==
    /\ op = "lazy"
    /\ \E t \in DOMAIN threads :
        /\ threads[t].pc = "thunk"
        /\ lazy' = [state |-> "init", f |-> lazy.f, runs |-> lazy.runs + 1,
                    codec |-> thunk_call(lazy.f, lazy.runs)]
        /\ threads' = [threads EXCEPT ![t].pc = "ready"]
    /\ UNCHANGED <<op, arg, res, cache, heap, lock>>

\* LazyCodec::encode / decode: the call is handed to the stored codec.
LazyDelegate ==
    /\ op = "lazy"
    /\ \E t \in DOMAIN threads :
        /\ threads[t].pc = "ready"
        /\ threads' = [threads EXCEPT ![t] =
                          [pc |-> "done", call |-> threads[t].call,
                           got |-> delegate(lazy.codec, threads[t].call)]]
    /\ UNCHANGED <<op, arg, res, cache, heap, lock, lazy>>

\* A map codec value is constructed at a free address and MaxThreads threads
\* are given a holder reached through it; none has called compressor() on
\* it yet.
SpawnCompressorCalls ==
    /\ op \in {"init", "heap", "compressor_call"}
    /\ \E address \in (1..MaxAddress) \ DOMAIN heap : \E mc \in HeapCodecs :
       \E h \in HoldersAt(mc, address) :
        /\ heap' = map_put(heap, address, mc)
        /\ arg' = [codec |-> h[1], address |-> h[2]]
    /\ threads' = [t \in 1..MaxThreads |-> [pc |-> "call"]]
    /\ op' = "threads"
    /\ res' = <<>>
    /\ UNCHANGED <<cache, lock, lazy>>

\* compressor() up to KEY_COMPRESSOR_CACHE.entry(key): the entry holds the
\* write lock of the key's shard, so the call waits while another thread
\* holds an entry.
CacheEntry ==
    /\ op = "threads"
    /\ lock = 0
    /\ \E t \in DOMAIN threads :
        /\ threads[t].pc = "call"
        /\ threads' = [threads EXCEPT ![t] = [pc |-> "entry"]]
        /\ lock' = t
    /\ UNCHANGED <<op, arg, res, cache, heap, lazy>>

\* .or_insert_with(..).value().clone() on the entry held: the table is
\* built and stored if the key has none, the caller takes the stored table,
\* and the entry is released at the end of the statement.
OrInsertWith ==
    /\ op = "threads"
    /\ \E t \in DOMAIN threads :
        /\ threads[t].pc = "entry"
        /\ lock = t
        /\ cache' = cache_entry(cache, arg.address, arg.codec)
        /\ threads' = [threads EXCEPT ![t] =
                          [pc |-> "done",
                           got |-> cache_entry(cache, arg.address, arg.codec)[arg.address]]]
        /\ lock' = 0
    /\ UNCHANGED <<op, arg, res, heap, lazy>>

Next ==
    \/ LifecycleAdd
    \/ ApplyN
    \/ FlatMap
    \/ PrimitiveRoundTrip
    \/ StructRoundTrip
    \/ StructRoundTripCompressed
    \/ KeyDispatchRoundTrip
    \/ KeyDispatchEncode
    \/ ListEncode
    \/ ListDecode
    \/ MapEncode
    \/ MapDecode
    \/ CheckedEncode
    \/ CheckedDecode
    \/ EitherDecode
    \/ KeyDispatchDecode
    \/ KeyCompressorNew
    \/ Construct
    \/ Drop
    \/ CompressorCall
    \/ MapBuilderAdds
    \/ ListCollect
    \/ NbtListRoundTrip
    \/ AddMessage
    \/ NumberInto
    \/ JsonMerge
    \/ JsonMergeKey
    \/ NewLazyCodec
    \/ LazyForce
    \/ LazyInit
    \/ LazyDelegate
    \/ SpawnCompressorCalls
    \/ CacheEntry
    \/ OrInsertWith

Spec == Init /\ [][Next]_vars

\* ------------------------------------------------------------------ claims

AllSuccess(rs) == \A i \in DOMAIN rs : is_success(rs[i])

AnyNonResult(rs) ==
    \E i \in DOMAIN rs : is_error(rs[i]) /\ ~rs[i].partial_result.some

\* C4: apply_n (n in 2..16, apply_2 included) returns Success(f(..)) iff all
\* inputs are Success; an Error without partial if some input is an Error
\* without partial; and an Error whose partial is f of the inputs' complete or
\* partial values whenever every input is a Success or an Error with a partial
\* and at least one is an Error with a partial.
C4_ApplyN_AsClaimed ==
    op = "apply_n" =>
        /\ (is_success(res) <=> AllSuccess(arg))
        /\ (AllSuccess(arg) =>
                res.result = [i \in DOMAIN arg |-> arg[i].result])
        /\ (AnyNonResult(arg) => is_error(res) /\ ~res.partial_result.some)
        /\ (~AllSuccess(arg) /\ ~AnyNonResult(arg) =>
                /\ is_error(res)
                /\ res.partial_result = Some(values_of(arg)))

\* C3: every primitive codec (bool, byte, short, int, long, string,
\* byte buffer, int list, long list) decodes what it encoded back to the value
\* it was given, 64-bit integers of any magnitude and non-empty packed lists
\* included.
C3_PrimitiveRoundTrip_AsClaimed ==
    op = "primitive" =>
        /\ is_success(res.decoded)
        /\ res.decoded.result = arg.value

\* Where the primitive round trip holds: everything but packed lists under
\* JsonOps (read back empty) and, under JsonOps, an i64 that no f64 holds.
C3_PrimitiveRoundTrip_Rest ==
    op = "primitive" =>
        \/ arg.ops.kind = "json" /\ arg.codec.c \in ListCodecs /\ arg.value # <<>>
        \/ arg.ops.kind = "json" /\ arg.codec.c = "Long"
             /\ as_f64(arg.value) # arg.value
        \/ is_success(res.decoded) /\ res.decoded.result = arg.value

\* Whether each field of the struct of a round trip encodes successfully into
\* a fresh builder.
FieldsEncode(a) ==
    \A i \in DOMAIN a.codec.codec.fields :
        is_success(map_encode(a.codec.codec.fields[i], a.value[i], a.ops,
                              builder(a.ops)).builder)

FieldResults(a) ==
    [i \in DOMAIN a.codec.fields |-> map_decode(a.codec.fields[i], a.input.v, a.ops)]

\* The messages of the failing ones of the first n results, joined by "; ".
RECURSIVE FailingMessages(_, _)
FailingMessages(rs, n) ==
    IF n = 0 THEN <<>>
    ELSE LET before == FailingMessages(rs, n - 1)
         IN  IF is_success(rs[n]) THEN before
             ELSE IF before = <<>> THEN rs[n].message
             ELSE before \o <<"; ">> \o rs[n].message

\* C5: struct decode runs every field decoder whatever the earlier fields
\* did; when some fields fail, the struct's result is an Error whose message
\* is the failing fields' messages in declaration order joined by "; ", a
\* missing required field contributing "No key <name> in map".
C5_StructDecodeMessages ==
    op = "map_decode" /\ arg.codec.m = "struct" =>
        LET rs == FieldResults(arg)
        IN  /\ \A i \in DOMAIN rs :
                  arg.codec.fields[i].m = "field"
                  /\ arg.codec.fields[i].name \notin DOMAIN arg.input.v
                  => /\ is_error(rs[i])
                     /\ rs[i].message = <<"No key ", arg.codec.fields[i].name, " in map">>
            /\ (\E i \in DOMAIN rs : is_error(rs[i])) =>
                  /\ is_error(res)
                  /\ res.message = FailingMessages(rs, Len(rs))

C5_Witness ==
    /\ op = "map_decode"
    /\ arg.codec.m = "struct"
    /\ Len(arg.codec.fields) = MaxFields
    /\ is_error(res)
    /\ res.message = <<"No key ", "f1", " in map", "; ",
                       "Value ", "9", " is outside range [", "0", ", ", "8", "]">>
    /\ is_success(FieldResults(arg)[3])

\* Whether the builder holds an entry under `key`.
HasEntry(b, key) ==
    /\ is_success(b.builder) \/ b.builder.partial_result.some
    /\ IF b.kind = "nbt" THEN key \in DOMAIN value_of(b.builder).v
       ELSE \E i \in DOMAIN value_of(b.builder) :
                value_of(b.builder)[i][1] = create_string(b.ops, key)

\* C6 as stated: with optional_field_with_default(c, "x", d), encoding a
\* value equal to d() adds no "x" entry to the builder and a value different
\* from d() adds one; decoding a map without "x" returns Success(d()).
C6_DefaultField_AsClaimed ==
    /\ op = "map_encode" =>
           (arg.value = arg.codec.default <=> ~HasEntry(res, "x"))
    /\ op = "map_decode" /\ arg.codec.m = "default"
       /\ arg.codec.codec.name \notin DOMAIN arg.input.v =>
           is_success(res) /\ res.result = arg.codec.default

\* C6, amended: a value different from d() adds the "x" entry when c encodes
\* that value successfully; when c fails on it the builder becomes an Error
\* and holds no entry.
C6_DefaultField ==
    /\ op = "map_encode" =>
           LET encoded == encode_start(arg.codec.codec.codec, arg.value, arg.ops)
           IN  /\ arg.value = arg.codec.default =>
                      ~HasEntry(res, "x") /\ is_success(res.builder)
               /\ arg.value # arg.codec.default /\ is_success(encoded) =>
                      HasEntry(res, "x")
               /\ arg.value # arg.codec.default /\ is_error(encoded) =>
                      ~HasEntry(res, "x") /\ is_error(res.builder)
    /\ op = "map_decode" /\ arg.codec.m = "default"
       /\ arg.codec.codec.name \notin DOMAIN arg.input.v =>
           is_success(res) /\ res.result = arg.codec.default

C6_Witness ==
    /\ op = "map_encode"
    /\ arg.value # arg.codec.default
    /\ arg.codec.codec.codec.c = "range"
    /\ HasEntry(res, "x")

\* C7: the map codec of lenient_optional_field(c, name) decodes to
\* Success(None) when the key is missing and also when the key is present but
\* c fails to decode its value.
C7_LenientOptional_AsClaimed ==
    /\ op = "map_decode" /\ arg.codec.m = "optional" /\ arg.codec.codec.c = "Int"
    /\ \/ arg.codec.name \notin DOMAIN arg.input.v
       \/ is_error(parse(arg.codec.codec, arg.input.v[arg.codec.name], arg.ops))
    => is_success(res) /\ res.result = None

\* The half of C7 that holds: a missing key decodes to Success(None).
C7_LenientOptional_Missing ==
    op = "map_decode" /\ arg.codec.m = "optional"
    /\ arg.codec.name \notin DOMAIN arg.input.v =>
        is_success(res) /\ res.result = None

\* C2: for a KeyDispatchable type and every variant value t, decoding what
\* KeyDispatchMapCodec's encode wrote returns Success(t), with an adapter
\* whose compress_maps() is false and with one whose compress_maps() is true.
C2_KeyDispatch_AsClaimed ==
    op = "dispatch" =>
        /\ is_success(res.encoded)
        /\ is_success(res.decoded)
        /\ res.decoded.result = arg.value

\* The half of C2 that holds: the round trip without map compression.
C2_KeyDispatch_NotCompressed ==
    op = "dispatch" /\ ~compress_maps(arg.ops) =>
        /\ is_success(res.encoded)
        /\ res.encoded.result.v["type"] = [t |-> "String", v |-> arg.value.key]
        /\ is_success(res.decoded)
        /\ res.decoded.result = arg.value

\* With map compression no variant round-trips, and what encode hands back
\* never holds the discriminator.
C2_KeyDispatch_Compressed ==
    op = "dispatch" /\ compress_maps(arg.ops) =>
        /\ ~is_success(res.decoded)
        /\ res.encoded.partial_result.some =>
               "type" \notin DOMAIN res.encoded.partial_result.val.v

\* The results of the element codec on the elements of a list decode's input.
ElementResults(a) ==
    [i \in DOMAIN a.input.v |-> decode(a.codec.codec, a.input.v[i], a.ops)]

\* The values of the successful ones of the results, in order.
Successful(rs) ==
    LET Ok(r) == is_success(r)
        kept == SelectSeq(rs, Ok)
    IN  [i \in DOMAIN kept |-> kept[i].result[1]]

\* A list decode within its size bounds where some elements fail to decode
\* and others succeed.
PartlyFailing(a) ==
    LET rs == ElementResults(a)
    IN  /\ Len(rs) <= a.codec.max_size
        /\ Len(Successful(rs)) >= a.codec.min_size
        /\ \E i \in DOMAIN rs : is_success(rs[i])
        /\ \E i \in DOMAIN rs : is_error(rs[i])

\* C8: ListCodec.decode of a list in which some elements fail to decode and
\* others succeed (size bounds met) returns an Error that carries a partial
\* result made of the successfully decoded elements in input order, and whose
\* message includes the failing elements' messages.
C8_ListDecodePartial_AsClaimed ==
    op = "list_decode" /\ PartlyFailing(arg) =>
        /\ is_error(res)
        /\ res.message = FailingMessages(ElementResults(arg), Len(arg.input.v))
        /\ res.partial_result.some
        /\ res.partial_result.val[1] = Successful(ElementResults(arg))

\* What the code does in the case of C8: the failing elements' messages are
\* all there, the decoded elements are not.
C8_ListDecodePartial_Dropped ==
    op = "list_decode" /\ PartlyFailing(arg) =>
        /\ is_error(res)
        /\ res.message = FailingMessages(ElementResults(arg), Len(arg.input.v))
        /\ ~res.partial_result.some

\* The results of the element codec's encode_start on the elements of a list
\* encode's input.
ElementsEncoded(a) ==
    [i \in DOMAIN a.input |-> encode_start(a.codec.codec, a.input[i], a.ops)]

\* C9 as stated: ListCodec.encode with bounds [min, max] returns an Error
\* ("List is too short" / "List is too long") whenever the input length is
\* below min or above max, and otherwise returns Success of a list holding
\* the element encodings in input order.
C9_ListEncode_AsClaimed ==
    op = "list_encode" =>
        IF Len(arg.input) < arg.codec.min_size
        THEN is_error(res) /\ res.message[1] = "List is too short: "
        ELSE IF Len(arg.input) > arg.codec.max_size
        THEN is_error(res) /\ res.message[1] = "List is too long: "
        ELSE /\ is_success(res)
             /\ res.result = [t |-> "Array",
                              v |-> [i \in DOMAIN arg.input |->
                                        ElementsEncoded(arg)[i].result]]

\* C9, amended: within the bounds the result is the Success of the list of
\* the element encodings in input order when every element encodes
\* successfully, and otherwise an Error without partial whose message is the
\* failing elements' messages joined by "; ".
C9_ListEncode ==
    op = "list_encode" =>
        IF Len(arg.input) < arg.codec.min_size
        THEN is_error(res) /\ res.message[1] = "List is too short: "
        ELSE IF Len(arg.input) > arg.codec.max_size
        THEN is_error(res) /\ res.message[1] = "List is too long: "
        ELSE IF \A i \in DOMAIN arg.input : is_success(ElementsEncoded(arg)[i])
        THEN /\ is_success(res)
             /\ res.result = [t |-> "Array",
                              v |-> [i \in DOMAIN arg.input |->
                                        ElementsEncoded(arg)[i].result]]
        ELSE /\ is_error(res)
             /\ ~res.partial_result.some
             /\ res.message = FailingMessages(ElementsEncoded(arg), Len(arg.input))

C9_Witness ==
    /\ op = "list_encode"
    /\ arg.codec.codec.c = "range"
    /\ Len(arg.input) = 2
    /\ is_success(res)
    /\ Len(res.result.v) = 2

\* A list decode given more than max elements, all of which decode.
TooLong(a) ==
    /\ Len(a.input.v) > a.codec.max_size
    /\ \A i \in DOMAIN a.input.v : is_success(ElementResults(a)[i])

\* A list decode that yields fewer than min elements.
TooShort(a) ==
    Len(decode_elements(a.codec, a.input.v, a.ops, Len(a.input.v)).elements)
        < a.codec.min_size

\* C10: decoding a list of more than max elements reports a "List is too
\* long" Error that still carries, as partial result, the first max decoded
\* elements, with the excess input elements in order in the remainder list;
\* decoding a list that yields fewer than min elements returns an Error
\* without partial.
C10_ListDecodeBounds_AsClaimed ==
    op = "list_decode" =>
        /\ TooLong(arg) =>
              /\ is_error(res)
              /\ res.message[1] = "List is too long: "
              /\ res.partial_result.some
              /\ res.partial_result.val =
                     <<SubSeq(Successful(ElementResults(arg)), 1, arg.codec.max_size),
                       create_list(arg.ops,
                                   SubSeq(arg.input.v, arg.codec.max_size + 1,
                                          Len(arg.input.v)))>>
        /\ TooShort(arg) =>
              /\ is_error(res)
              /\ res.message[1] = "List is too short: "
              /\ ~res.partial_result.some

\* What the code does in the cases of C10: both errors come without partial.
C10_ListDecodeBounds_NoPartial ==
    op = "list_decode" =>
        /\ TooLong(arg) =>
              /\ is_error(res)
              /\ res.message[1] = "List is too long: "
              /\ ~res.partial_result.some
        /\ TooShort(arg) =>
              /\ is_error(res)
              /\ res.message[1] = "List is too short: "
              /\ ~res.partial_result.some

\* ---------------------------------------------------------------------- C11

\* What each codec of the either codec of `a` decodes the input of `a` to.
LeftResult(a) == decode(a.codec.left_codec, a.input, a.ops)
RightResult(a) == decode(a.codec.right_codec, a.input, a.ops)

\* `out` is the result `r` of one side, its value wrapped in that side.
IsResultOf(out, side, r) ==
    /\ out.tag = r.tag
    /\ out.lifecycle = r.lifecycle
    /\ is_error(r) =>
          /\ out.message = r.message
          /\ out.partial_result.some = r.partial_result.some
    /\ has_result_or_partial(r) =>
          /\ value_of(out)[1].side = side
          /\ value_of(out)[1].v = value_of(r)[1]
          /\ value_of(out)[2] = value_of(r)[2]

\* C11: EitherCodec.decode returns the left codec's result when it is a full
\* success; otherwise the right codec's when that is a full success; otherwise
\* the left's partial result if it has one; otherwise the right's partial
\* result if it has one; otherwise an error without partial whose message
\* combines both messages.  The right codec is consulted only when the left
\* one did not fully succeed.
C11_EitherDecode ==
    op = "either_decode" =>
        LET l == LeftResult(arg)
            r == RightResult(arg)
        IN  /\ res.consulted = IF is_success(l) THEN <<"left">> ELSE <<"left", "right">>
            /\ IF is_success(l) THEN IsResultOf(res.result, "Left", l)
               ELSE IF is_success(r) THEN IsResultOf(res.result, "Right", r)
               ELSE IF l.partial_result.some THEN IsResultOf(res.result, "Left", l)
               ELSE IF r.partial_result.some THEN IsResultOf(res.result, "Right", r)
               ELSE /\ is_error(res.result)
                    /\ ~res.result.partial_result.some
                    /\ res.result.message =
                           <<"Failed to parse either. First: ">> \o l.message
                           \o <<"; Second: ">> \o r.message

\* The left codec failed without partial, the right one with a partial
\* result, and that partial result came back as a Right.
C11_Witness ==
    /\ op = "either_decode"
    /\ is_error(LeftResult(arg))
    /\ ~LeftResult(arg).partial_result.some
    /\ is_error(RightResult(arg))
    /\ RightResult(arg).partial_result.some
    /\ is_error(res.result)
    /\ res.result.partial_result.val[1].side = "Right"

\* ---------------------------------------------------------------------- C12

\* What the key codec of the key dispatch codec of `a` decodes the input of
\* `a` to.
KeyResult(a) == compressed_decode(a.codec.codec.key_codec, a.input, a.ops)

UnknownKey(a) ==
    /\ is_success(KeyResult(a))
    /\ KeyResult(a).result \notin DOMAIN a.codec.codec.variants

DistinctKeys(key_iter, n) == {key_iter[i] : i \in 1..n}

\* Where the key s first occurs in key_iter.
FirstOccurrence(key_iter, s) ==
    CHOOSE i \in DOMAIN key_iter :
        key_iter[i] = s /\ \A j \in 1..(i - 1) : key_iter[j] # s

\* C13: a KeyCompressor built from keys with k distinct strings assigns them
\* the indices 0..k-1 in order of first occurrence, decompress_key and
\* compress_key are inverse on them, and size() is k.
C13_KeyCompressor_AsClaimed ==
    op = "compressor" =>
        /\ KeyCompressor_size(res) = Cardinality(DistinctKeys(arg, Len(arg)))
        /\ \A s \in DistinctKeys(arg, Len(arg)) :
              /\ compress_key_str(res, s) =
                     Some(Cardinality(DistinctKeys(arg, FirstOccurrence(arg, s) - 1)))
              /\ decompress_key_str(res, compress_key_str(res, s).val) = Some(s)

\* What the code does in the cases of C13: every key gets index 0, index 0
\* decompresses to the distinct key that came last, and size() is 0.
C13_KeyCompressor_AllZero ==
    op = "compressor" =>
        /\ KeyCompressor_size(res) = 0
        /\ \A s \in DistinctKeys(arg, Len(arg)) : compress_key_str(res, s) = Some(0)
        /\ \A s \in {"a", "b", "c"} \ DistinctKeys(arg, Len(arg)) :
              compress_key_str(res, s) = None
        /\ arg # <<>> =>
              \E s \in DistinctKeys(arg, Len(arg)) :
                  /\ decompress_key_str(res, 0) = Some(s)
                  /\ \A t \in DistinctKeys(arg, Len(arg)) :
                        FirstOccurrence(arg, t) <= FirstOccurrence(arg, s)

\* ---------------------------------------------------------------------- C14

\* C14: every call of compressor() returns the table built from the keys() of
\* the codec it is called on, wherever that codec lives in memory.
C14_OwnTable_AsClaimed ==
    op = "compressor_call" => res = compressor(arg.codec)

\* What the code guarantees in the cases of C14: the table returned is the
\* one the cache holds for the holder's address, and an address keeps the
\* table it got first for good.
C14_TablePerAddress ==
    [][/\ \A a \in DOMAIN cache : a \in DOMAIN cache' /\ cache'[a] = cache[a]
       /\ op' = "compressor_call" => res' = cache'[arg'.address]]_vars

\* ---------------------------------------------------------------------- C15

\* C15: with ops that compress maps, a struct codec's encoder emits the
\* positional list that compressed_decode reads: for every record t,
\* encode_start(t) succeeds with a list and decoding it returns Success(t).
C15_CompressedRoundTrip_AsClaimed ==
    op = "struct_compressed" =>
        /\ is_success(res.encoded)
        /\ res.encoded.result.t = "Array"
        /\ is_success(res.decoded)
        /\ res.decoded.result = arg.value

\* What the code does in the cases of C15: the encoder never produces a
\* list, and no record comes back.
C15_CompressedRoundTrip_Never ==
    op = "struct_compressed" =>
        /\ is_success(res.encoded) => res.encoded.result.t = "Object"
        /\ ~is_success(res.decoded)

\* ---------------------------------------------------------------------- C16

\* The keys of the entries the builder holds.
EntryKeys(b) ==
    {get_as_string(value_of(b.builder)[i][1]).val : i \in DOMAIN value_of(b.builder)}

\* C16: with ops that compress maps, KeyDispatchMapCodec's encode adds only
\* keys of its own keys(): the discriminator is written under the key
\* codec's key, the variant's body under "value", and no field of the
\* variant at the top level.
C16_DispatchKeys_AsClaimed ==
    op = "dispatch_encode" =>
        /\ is_success(res.builder)
        /\ EntryKeys(res) \subseteq {keys(arg.codec)[i] : i \in DOMAIN keys(arg.codec)}
        /\ HasEntry(res, "type")
        /\ HasEntry(res, "value")

\* What the code does in the cases of C16: the variant's fields are entries
\* of the top level and the discriminator is not.
C16_DispatchKeys_Inlined ==
    op = "dispatch_encode" =>
        /\ ~HasEntry(res, "type")
        /\ has_result_or_partial(res.builder) =>
              \A i \in DOMAIN keys(arg.codec.variants[arg.value.key]) :
                  keys(arg.codec.variants[arg.value.key])[i] \in EntryKeys(res)

\* ---------------------------------------------------------------------- C17

\* Lifecycle::add folded over the lifecycles of the first n results of rs.
RECURSIVE AddAll(_, _)
AddAll(rs, n) ==
    IF n = 1 THEN rs[1].lifecycle ELSE add(AddAll(rs, n - 1), rs[n].lifecycle)

\* C17 as stated: the lifecycle of the result of flat_map, when f is run, and
\* of apply_n is Lifecycle::add folded over the lifecycles of the results
\* involved.
C17_Lifecycles_AsClaimed ==
    /\ (op = "flat_map" /\ has_result_or_partial(arg.result)) =>
           res.lifecycle = add(arg.result.lifecycle, arg.second.lifecycle)
    /\ op = "apply_n" => res.lifecycle = AddAll(arg, Len(arg))

\* C17 as amended: the lifecycle of flat_map's result, when f is run, is
\* Lifecycle::add of the lifecycle of what f returned and that of the result
\* flat_map was called on (Stable for two Stable ones); the lifecycle of
\* apply_n's result is Experimental whatever the lifecycles of its inputs.
C17_Lifecycles ==
    /\ (op = "flat_map" /\ has_result_or_partial(arg.result)) =>
           /\ res.lifecycle = add(arg.second.lifecycle, arg.result.lifecycle)
           /\ (arg.result.lifecycle = Stable /\ arg.second.lifecycle = Stable) =>
                  res.lifecycle = Stable
    /\ op = "apply_n" => res.lifecycle = Experimental

\* f ran on the partial value of a result deprecated since 2 and returned a
\* result deprecated since 1: the outcome is deprecated since 1.
C17_Witness ==
    /\ op = "flat_map"
    /\ is_error(arg.result)
    /\ arg.result.lifecycle = Deprecated(2)
    /\ arg.second.lifecycle = Deprecated(1)
    /\ res.lifecycle = Deprecated(1)

\* ---------------------------------------------------------------------- C18

\* C18: Lifecycle::add is commutative and associative; Experimental combined
\* with anything is Experimental, Deprecated(a) with Deprecated(b) is
\* Deprecated(min(a, b)), and Stable is the identity against Stable and
\* yields the other operand against Experimental and Deprecated.
C18_LifecycleMonoid ==
    op = "add" =>
        /\ res.ab = res.ba
        /\ res.ab_c = res.a_bc
        /\ (arg[1].k = "Experimental" \/ arg[2].k = "Experimental") =>
               res.ab.k = "Experimental"
        /\ (arg[1].k = "Deprecated" /\ arg[2].k = "Deprecated") =>
               /\ res.ab.k = "Deprecated"
               /\ res.ab.since \in {arg[1].since, arg[2].since}
               /\ res.ab.since <= arg[1].since
               /\ res.ab.since <= arg[2].since
        /\ arg[1].k = "Stable" => res.ab = arg[2]
        /\ arg[2].k = "Stable" => res.ab = arg[1]

\* A lifecycle deprecated since MaxSince was added to one deprecated since 0.
C18_Witness ==
    /\ op = "add"
    /\ arg[1] = Deprecated(MaxSince)
    /\ arg[2] = Deprecated(0)
    /\ res.ab = Deprecated(0)
    /\ res.ba = Deprecated(0)

\* ---------------------------------------------------------------------- C19

\* The map of `a` binds the name of the optional field with a default that
\* `a` decodes with, and the field's codec fails on the value bound.
PresentButFails(a) ==
    /\ a.codec.m = "default"
    /\ a.codec.codec.name \in DOMAIN a.input.v
    /\ is_error(parse(a.codec.codec.codec, a.input.v[a.codec.codec.name], a.ops))

\* C19 as stated: with the strict optional_field_with_default(c, name, d),
\* decoding a map in which the key is present but c fails on its value
\* yields d(), as when the key is missing.
C19_StrictDefault_AsClaimed ==
    (op = "map_decode" /\ PresentButFails(arg)) =>
        /\ is_success(res)
        /\ res.result = arg.codec.default

\* C19 as amended: decoding a map in which the key is present but c fails on
\* its value yields an Error with c's message, and a partial value only if
\* c's error has one; only a map without the key yields Success(d()).
C19_StrictDefault ==
    /\ (op = "map_decode" /\ PresentButFails(arg)) =>
           /\ is_error(res)
           /\ res.message =
                  parse(arg.codec.codec.codec, arg.input.v[arg.codec.codec.name],
                        arg.ops).message
           /\ res.partial_result.some =
                  parse(arg.codec.codec.codec, arg.input.v[arg.codec.codec.name],
                        arg.ops).partial_result.some
    /\ (/\ op = "map_decode"
        /\ arg.codec.m = "default"
        /\ arg.codec.codec.name \notin DOMAIN arg.input.v) =>
           res = success(arg.codec.default)

\* A map binding the field to a string was decoded with a byte codec.
C19_Witness ==
    /\ op = "map_decode"
    /\ PresentButFails(arg)
    /\ arg.input.v[arg.codec.codec.name].t = "String"
    /\ is_error(res)

\* ---------------------------------------------------------------------- C20

\* Whether a value satisfies the bounds or the validator of a range or
\* validated codec, and the message of the error it gets if it does not.
Satisfies(codec, value) ==
    IF codec.c = "range" THEN codec.min <= value /\ value <= codec.max
    ELSE value \in codec.valid

ViolationMessage(codec, value) ==
    IF codec.c = "range"
    THEN <<"Value ", ToString(value), " is outside range [", ToString(codec.min),
           ", ", ToString(codec.max), "]">>
    ELSE codec.message

\* What the inner codec of the codec of `a` decodes the input of `a` to.
InnerDecoded(a) == decode(a.codec.codec, a.input, a.ops)

\* C20 as stated: with a range codec (bounds inclusive) or a validated codec,
\* encoding a violating value returns the check's Error and nothing of the
\* inner encoder; decoding an input whose decoded value violates returns an
\* Error without partial result; a satisfying value is encoded and decoded
\* exactly as by the inner codec.
C20_Checked_AsClaimed ==
    /\ op = "checked_encode" =>
           IF Satisfies(arg.codec, arg.value)
           THEN res = encode_start(arg.codec.codec, arg.value, arg.ops)
           ELSE res = error(ViolationMessage(arg.codec, arg.value))
    /\ op = "checked_decode" =>
           IF ~has_result_or_partial(InnerDecoded(arg)) THEN res = InnerDecoded(arg)
           ELSE IF Satisfies(arg.codec, value_of(InnerDecoded(arg))[1])
           THEN res = InnerDecoded(arg)
           ELSE is_error(res) /\ ~res.partial_result.some

\* C20 as amended: the same, except that a satisfying value is encoded by a
\* range codec and decoded by either codec to the inner codec's result
\* under the lifecycle Experimental (the inner lifecycle added to that of
\* the check's own success); only the validated encoder, and a decoder whose
\* inner codec has no value at all, return the inner result as it is.
C20_Checked ==
    /\ op = "checked_encode" =>
           IF Satisfies(arg.codec, arg.value)
           THEN res = IF arg.codec.c = "range"
                      THEN with_lifecycle(encode_start(arg.codec.codec, arg.value,
                                                       arg.ops), Experimental)
                      ELSE encode_start(arg.codec.codec, arg.value, arg.ops)
           ELSE res = error(ViolationMessage(arg.codec, arg.value))
    /\ op = "checked_decode" =>
           IF ~has_result_or_partial(InnerDecoded(arg)) THEN res = InnerDecoded(arg)
           ELSE IF Satisfies(arg.codec, value_of(InnerDecoded(arg))[1])
           THEN res = with_lifecycle(InnerDecoded(arg), Experimental)
           ELSE is_error(res) /\ ~res.partial_result.some

\* A list of ones was decoded by the validated list codec: the inner codec's
\* result is Stable and the validated one Experimental.
C20_Witness ==
    /\ op = "checked_decode"
    /\ arg.codec.codec.c = "list"
    /\ is_success(InnerDecoded(arg))
    /\ InnerDecoded(arg).lifecycle = Stable
    /\ is_success(res)
    /\ res.result[1] = <<1, 1>>
    /\ res.lifecycle = Experimental

\* ------------------------------------------------------------------- C21

AllSupplied(calls) ==
    \A i \in DOMAIN calls : calls[i].kres = "S" /\ calls[i].vres = "S"

\* The messages of the failing results supplied by the first n calls, in call
\* order, a call's key before its value.
RECURSIVE SuppliedMessages(_, _)
SuppliedMessages(calls, n) ==
    IF n = 0 THEN <<>>
    ELSE SuppliedMessages(calls, n - 1)
         \o (IF calls[n].kres # "S" THEN <<<<"key", ToString(n)>>>> ELSE <<>>)
         \o (IF calls[n].vres # "S" THEN <<<<"value", ToString(n)>>>> ELSE <<>>)

\* Whether the tokens of `part` occur in `whole` in their order.
RECURSIVE OccursInOrder(_, _)
OccursInOrder(part, whole) ==
    IF Len(part) = 0 THEN TRUE
    ELSE IF Len(whole) = 0 THEN FALSE
    ELSE IF part[1] = whole[1] THEN OccursInOrder(Tail(part), Tail(whole))
    ELSE OccursInOrder(part, Tail(whole))

\* The entries the first n calls add, in insertion order.
AddedEntries(ops, calls) ==
    [i \in DOMAIN calls |-> <<KeyOf(ops, calls[i]), ValueOf(ops, i)>>]

\* The map of the entries: a later entry replaces an earlier one of its key.
RECURSIVE MapOfEntries(_, _)
MapOfEntries(entries, n) ==
    IF n = 0 THEN <<>>
    ELSE map_put(MapOfEntries(entries, n - 1),
                 IF entries[n][1].t = "String" THEN entries[n][1].v ELSE "true",
                 entries[n][2])

\* The entries of a built map; the empty value of the format holds none.
EntriesOf(built) == IF built.t \in {"Object", "Compound"} THEN built.v ELSE <<>>

\* C21 as claimed: after any adds on a MapBuilder, build(empty) is a Success
\* exactly when every supplied key and value result was one, and then holds
\* exactly the added entries; after the first failing result every later
\* builder is an Error, and build's message holds every failing result's
\* message in call order.
C21_MapBuilder_AsClaimed ==
    op = "map_builder" =>
        /\ is_success(res.built) <=> AllSupplied(arg.calls)
        /\ is_success(res.built) =>
               EntriesOf(res.built.result) =
                   MapOfEntries(AddedEntries(arg.ops, arg.calls), Len(arg.calls))
        /\ \A i \in DOMAIN arg.calls :
               is_error(res.builders[i]) <=> ~AllSupplied(SubSeq(arg.calls, 1, i))
        /\ is_error(res.built) =>
               OccursInOrder(join(SuppliedMessages(arg.calls, Len(arg.calls))),
                             res.built.message)

\* C21, the builder alone: under every ops the builder is a Success exactly
\* when every supplied result was one, it then holds the added entries in
\* insertion order, it stays an Error once it is one, and its message is the
\* failing results' messages in call order joined by "; ".
C21_MapBuilder_BuilderField ==
    op = "map_builder" =>
        \A i \in DOMAIN arg.calls :
            /\ is_success(res.builders[i]) <=> AllSupplied(SubSeq(arg.calls, 1, i))
            /\ is_success(res.builders[i]) =>
                   res.builders[i].result = SubSeq(AddedEntries(arg.ops, arg.calls), 1, i)
            /\ is_error(res.builders[i]) =>
                   res.builders[i].message = join(SuppliedMessages(arg.calls, i))

\* C21, build under NbtOps with string keys: what is claimed holds.
C21_MapBuilder_BuildNbt ==
    (op = "map_builder" /\ arg.ops = NBT_INSTANCE
       /\ \A i \in DOMAIN arg.calls : arg.calls[i].key # 3) =>
        /\ is_success(res.built) <=> AllSupplied(arg.calls)
        /\ is_success(res.built) =>
               EntriesOf(res.built.result) =
                   MapOfEntries(AddedEntries(arg.ops, arg.calls), Len(arg.calls))
        /\ is_error(res.built) =>
               res.built.message = join(SuppliedMessages(arg.calls, Len(arg.calls)))

\* C21, build under the compressing JsonOps: a second string-keyed entry
\* makes build an Error although every supplied result was a Success.
C21_MapBuilder_BuildJson ==
    (op = "map_builder" /\ arg.ops = JSON_COMPRESSED /\ Len(arg.calls) = 2
       /\ AllSupplied(arg.calls)) =>
        /\ is_error(res.built)
        /\ res.built.message[1] = "merge_into_map called with not a map: "

\* ------------------------------------------------------------------- C22

\* Equality of two tags, compared type first.
RECURSIVE SameTag(_, _)
SameTag(x, y) ==
    /\ x.t = y.t
    /\ CASE x.t = "Compound" ->
                /\ DOMAIN x.v = DOMAIN y.v
                /\ \A key \in DOMAIN x.v : SameTag(x.v[key], y.v[key])
         [] x.t = "List" ->
                /\ Len(x.v) = Len(y.v)
                /\ \A i \in DOMAIN x.v : SameTag(x.v[i], y.v[i])
         [] x.t = "End" -> TRUE
         [] OTHER -> x.v = y.v

SameTags(xs, ys) == Len(xs) = Len(ys) /\ \A i \in DOMAIN xs : SameTag(xs[i], ys[i])

\* The items a list or array tag holds, as tags.
ItemsOf(tag) ==
    CASE tag.t = "List" -> tag.v
      [] tag.t = "ByteArray" ->
             [i \in DOMAIN tag.v |->
                 [t |-> "Byte", v |-> IF tag.v[i] >= 128 THEN tag.v[i] - 256 ELSE tag.v[i]]]
      [] tag.t = "IntArray" -> [i \in DOMAIN tag.v |-> [t |-> "Int", v |-> tag.v[i]]]
      [] tag.t = "LongArray" -> [i \in DOMAIN tag.v |-> [t |-> "Long", v |-> tag.v[i]]]
      [] OTHER -> <<>>

\* The tags collected: the prefix's items, then the accepted tags.
Collected(a) == ItemsOf(a.prefix) \o a.tags

OneType(tags) == \A i, j \in DOMAIN tags : tags[i].t = tags[j].t

ArrayOf(t) == CASE t = "Byte" -> "ByteArray" [] t = "Int" -> "IntArray"
                [] t = "Long" -> "LongArray" [] OTHER -> "List"

\* C22 as claimed: the result of a ListCollector is a list whose elements
\* have one type; when the collected tags are not of one type, every one that
\* is not a compound stands in the list as the compound {"": tag}; collected
\* bytes / ints / longs alone give a ByteArray / IntArray / LongArray.
C22_ListCollector_AsClaimed ==
    op = "list_collect" =>
        /\ res.t \in {"List", "ByteArray", "IntArray", "LongArray"}
        /\ OneType(ItemsOf(res))
        /\ Len(ItemsOf(res)) = Len(Collected(arg))
        /\ ~OneType(Collected(arg)) =>
               /\ res.t = "List"
               /\ \A i \in DOMAIN Collected(arg) :
                      Collected(arg)[i].t # "Compound" =>
                          SameTag(res.v[i], wrap_element(Collected(arg)[i]))
        /\ (Len(Collected(arg)) > 0 /\ OneType(Collected(arg))
              /\ Collected(arg)[1].t \in {"Byte", "Int", "Long"}) =>
               /\ res.t = ArrayOf(Collected(arg)[1].t)
               /\ SameTags(ItemsOf(res), Collected(arg))

\* C22 for a collector that starts with a byte, an int, a long or a
\* compound: what is claimed holds.
C22_ListCollector_FromArrayOrCompound ==
    (op = "list_collect" /\ Len(Collected(arg)) > 0
       /\ Collected(arg)[1].t \in {"Byte", "Int", "Long", "Compound"}) =>
        /\ OneType(ItemsOf(res))
        /\ Len(ItemsOf(res)) = Len(Collected(arg))
        /\ ~OneType(Collected(arg)) =>
               /\ res.t = "List"
               /\ \A i \in DOMAIN Collected(arg) :
                      Collected(arg)[i].t # "Compound" =>
                          SameTag(res.v[i], wrap_element(Collected(arg)[i]))
        /\ (OneType(Collected(arg)) /\ Collected(arg)[1].t # "Compound") =>
               /\ res.t = ArrayOf(Collected(arg)[1].t)
               /\ SameTags(ItemsOf(res), Collected(arg))

\* C22 for a collector that starts with a tag of another type (here a
\* string) and then takes a tag of a different type: the result is a List
\* that holds the collected tags as they are, of more than one type.
C22_ListCollector_FromHomogeneous ==
    (op = "list_collect" /\ Len(Collected(arg)) > 0
       /\ Collected(arg)[1].t = "String" /\ Len(arg.tags) = 1
       /\ arg.tags[1].t \notin {"String", "Compound"}) =>
        /\ res.t = "List"
        /\ SameTags(res.v, Collected(arg))
        /\ ~OneType(res.v)

\* ------------------------------------------------------------------- C30

\* C30 as claimed: get_iter(create_list(xs)) yields exactly xs, in order.
C30_NbtListRoundTrip_AsClaimed ==
    op = "nbt_list" => is_success(res) /\ SameTags(res.result, arg)

\* Whether a tag is a compound whose single entry has the key "".
IsWrapperLike(tag) == tag.t = "Compound" /\ DOMAIN tag.v = {""}

\* C30 when the first tag is not a compound with the single key "": xs comes
\* back.
C30_NbtListRoundTrip_FirstNotWrapper ==
    (op = "nbt_list" /\ (Len(arg) > 0 => ~IsWrapperLike(arg[1]))) =>
        is_success(res) /\ SameTags(res.result, arg)

\* C30 when the first tag is the compound {"": x}: the collector keeps it as
\* it is and get_iter yields x in its place.
C30_NbtListRoundTrip_FirstWrapper ==
    (op = "nbt_list" /\ Len(arg) > 0 /\ IsWrapperLike(arg[1])) =>
        /\ is_success(res)
        /\ Len(res.result) = Len(arg)
        /\ SameTag(res.result[1], arg[1].v[""])

\* ------------------------------------------------------------------- C23

\* Whether two results are of one kind (Success, Error with a partial, Error
\* without) and carry the same value.
SameKindAndPayload(x, y) ==
    /\ x.tag = y.tag
    /\ into_result_or_partial(x) = into_result_or_partial(y)

\* C23 as claimed: with a Success `other`, add_message returns a result of
\* r's kind with r's payload and message; with r and other both Errors the
\* message is r's, "; ", other's, and r's partial is kept only if both have
\* one.
C23_AddMessage_AsClaimed ==
    op = "add_message" =>
        /\ is_success(arg.other_result) =>
               /\ SameKindAndPayload(res, arg.r)
               /\ is_error(arg.r) => res.message = arg.r.message
        /\ (is_error(arg.r) /\ is_error(arg.other_result)) =>
               /\ is_error(res)
               /\ res.message = arg.r.message \o <<"; ">> \o arg.other_result.message
               /\ res.partial_result =
                      (IF arg.r.partial_result.some /\ arg.other_result.partial_result.some
                       THEN arg.r.partial_result ELSE None)

\* C23 except for an r with a partial and a Success other: as claimed, and
\* the result is Stable.
C23_AddMessage_OtherCases ==
    (op = "add_message"
       /\ ~(is_error(arg.r) /\ arg.r.partial_result.some /\ is_success(arg.other_result))) =>
        /\ res.lifecycle = Stable
        /\ is_success(arg.other_result) =>
               /\ SameKindAndPayload(res, arg.r)
               /\ is_error(arg.r) => res.message = arg.r.message
        /\ (is_error(arg.r) /\ is_error(arg.other_result)) =>
               /\ is_error(res)
               /\ res.message = arg.r.message \o <<"; ">> \o arg.other_result.message
               /\ res.partial_result =
                      (IF arg.r.partial_result.some /\ arg.other_result.partial_result.some
                       THEN arg.r.partial_result ELSE None)

\* C23 for an r with a partial and a Success other: the partial is dropped.
C23_AddMessage_PartialDropped ==
    (op = "add_message" /\ is_error(arg.r) /\ arg.r.partial_result.some
       /\ is_success(arg.other_result)) =>
        /\ is_error(res)
        /\ ~res.partial_result.some
        /\ res.message = arg.r.message

\* ------------------------------------------------------------------- C24

\* The bits set in the 32-bit two's complement form of an i32, and in the
\* 64-bit form of an i64.
TwosComplement32(n) ==
    IF n >= 0 THEN bits_of(n) ELSE (0..31) \ bits_of(0 - (n + 1))

TwosComplement64(w) ==
    IF ~w.neg THEN w.mag
    ELSE LET lowest == CHOOSE i \in w.mag : \A j \in w.mag : i <= j
         IN  (0..63) \ ((w.mag \ {lowest}) \cup (0..(lowest - 1)))

\* C24: for a Number holding an integer, the i16 and the i8 are the low 16
\* and 8 bits of the i32 it converts to, the i32 of a Long is its low 32
\* bits, and a conversion to a type at least as wide keeps the value.
C24_NumberConversions ==
    op = "number" =>
        /\ res.i16 \in (0 - 32768)..32767
        /\ TwosComplement32(res.i16) \cap (0..15) = TwosComplement32(res.i32) \cap (0..15)
        /\ res.i8 \in (0 - 128)..127
        /\ TwosComplement32(res.i8) \cap (0..7) = TwosComplement32(res.i32) \cap (0..7)
        /\ arg.k = "Long" =>
               /\ TwosComplement32(res.i32) = TwosComplement64(arg.v) \cap (0..31)
               /\ res.i64 = arg.v
        /\ arg.k \in {"Byte", "Short", "Int"} =>
               /\ res.i32 = arg.v
               /\ TwosComplement64(res.i64) =
                      TwosComplement32(arg.v) \cup (IF arg.v < 0 THEN 32..63 ELSE {})
        /\ arg.k \in {"Byte", "Short"} => res.i16 = arg.v
        /\ arg.k = "Byte" => res.i8 = arg.v

\* A long above the i32 range whose low byte has its top bit set: both
\* narrowings wrap.
C24_Witness ==
    /\ op = "number"
    /\ arg.k = "Long" /\ ~arg.v.neg /\ 32 \in arg.v.mag /\ 31 \in arg.v.mag
    /\ res.i32 < 0
    /\ res.i8 < 0

\* ------------------------------------------------------------------- C29

\* The values of the elements of the input that decode to a complete or a
\* partial value, in input order.
Decodable(rs) ==
    LET Kept(r) == has_result_or_partial(r)
        kept == SelectSeq(rs, Kept)
    IN  [i \in DOMAIN kept |-> value_of(kept[i])[1]]

\* C29: whenever ListCodec.decode returns a complete or a partial value, the
\* number of its elements lies between min_size and max_size, and its
\* elements occur in order among the decodable elements of the input.
C29_ListDecodeSize ==
    (op = "list_decode" /\ has_result_or_partial(res)) =>
        /\ Len(value_of(res)[1]) >= arg.codec.min_size
        /\ Len(value_of(res)[1]) <= arg.codec.max_size
        /\ OccursInOrder(value_of(res)[1], Decodable(ElementResults(arg)))

\* A decode that returns two different elements, under bounds that a longer
\* or shorter list would break.
C29_Witness ==
    /\ op = "list_decode"
    /\ has_result_or_partial(res)
    /\ arg.codec.min_size = 2 /\ arg.codec.max_size = 2
    /\ Len(value_of(res)[1]) = 2
    /\ value_of(res)[1][1] # value_of(res)[1][2]

\* C29: in the source no list decode returns a partial value, whatever the
\* elements decode to.
C29_ListDecode_NoPartial ==
    op = "list_decode" => (is_success(res) \/ ~res.partial_result.some)

\* ------------------------------------------------------------------- C27

\* The entries of a prefix, and the prefix's after the given ones are put.
RECURSIVE PutAll(_, _, _)
PutAll(m, entries, n) ==
    IF n = 0 THEN m
    ELSE map_put(PutAll(m, entries, n - 1), entries[n][1].v, entries[n][2])

ValuesOfEntries(entries) == [i \in DOMAIN entries |-> entries[i][2]]

IsObjectWith(r, m) == is_success(r) /\ r.result.t = "Object" /\ r.result.v = m

IsArrayWith(r, items) == is_success(r) /\ r.result.t = "Array" /\ r.result.v = items

\* C27 as claimed: merging string-keyed entries into a null or object prefix
\* succeeds with the object of the prefix's entries and the added ones, and a
\* prefix that is neither gives an Error; likewise merging values into a
\* null or array prefix, and a prefix that is neither.
C27_JsonMerge_AsClaimed ==
    (op = "json_merge" /\ Len(arg.entries) > 0) =>
        /\ arg.prefix.t \in {"Null", "Object"} =>
               IsObjectWith(res.map,
                            PutAll(IF arg.prefix.t = "Object" THEN arg.prefix.v ELSE <<>>,
                                   arg.entries, Len(arg.entries)))
        /\ arg.prefix.t \notin {"Null", "Object"} => is_error(res.map)
        /\ arg.prefix.t \in {"Null", "Array"} =>
               /\ IsArrayWith(res.values,
                              (IF arg.prefix.t = "Array" THEN arg.prefix.v ELSE <<>>)
                                  \o ValuesOfEntries(arg.entries))
               /\ IsArrayWith(res.list,
                              (IF arg.prefix.t = "Array" THEN arg.prefix.v ELSE <<>>)
                                  \o <<[t |-> "String", v |-> "1"]>>)
        /\ arg.prefix.t \notin {"Null", "Array"} =>
               is_error(res.values) /\ is_error(res.list)

\* C27, what the source does: an object prefix is refused, so is an array
\* prefix, and a second entry after the first; a prefix that is neither null
\* nor of the kind is replaced by the new entries alone.
C27_JsonMerge_Inverted ==
    (op = "json_merge" /\ Len(arg.entries) > 0) =>
        /\ (arg.prefix.t = "Object" \/ Len(arg.entries) > 1) =>
               /\ is_error(res.map)
               /\ res.map.message[1] = "merge_into_map called with not a map: "
        /\ (arg.prefix.t # "Object" /\ Len(arg.entries) = 1) =>
               IsObjectWith(res.map, PutAll(<<>>, arg.entries, 1))
        /\ arg.prefix.t = "Array" => is_error(res.values) /\ is_error(res.list)
        /\ arg.prefix.t # "Array" =>
               /\ IsArrayWith(res.values, ValuesOfEntries(arg.entries))
               /\ IsArrayWith(res.list, <<[t |-> "String", v |-> "1"]>>)

\* ------------------------------------------------------------------- C28

\* What a merge did with the key: "inserted" (a Success holding the entry
\* under the key's string), "rejected" (an Error whose partial holds no
\* entry), or "panicked".
Outcome(r, key) ==
    IF r.tag = "Panic" THEN "panicked"
    ELSE IF is_success(r) /\ r.result.t = "Object" /\ DOMAIN r.result.v # {} THEN "inserted"
    ELSE IF is_error(r) THEN "rejected"
    ELSE "other"

\* C28 as claimed: merge_into_map and merge_map_like_into_map treat a key
\* alike; a string key is inserted, a key that is no string is rejected by
\* the adapter that does not compress, and neither panics.
C28_JsonKeyPolicy_AsClaimed ==
    op = "json_key" =>
        /\ Outcome(res.map, arg.key) = Outcome(res.map_like, arg.key)
        /\ arg.key.t = "String" =>
               Outcome(res.map, arg.key) = "inserted"
               /\ Outcome(res.map_like, arg.key) = "inserted"
        /\ (arg.key.t # "String" /\ ~arg.ops.compressed) =>
               Outcome(res.map, arg.key) = "rejected"
               /\ Outcome(res.map_like, arg.key) = "rejected"
        /\ Outcome(res.map, arg.key) # "panicked"
        /\ Outcome(res.map_like, arg.key) # "panicked"

\* C28, merge_into_map alone: a string key is inserted, a key that is no
\* string is rejected unless the adapter compresses, and then it is inserted
\* under its text when get_as_string has one, and the call panics when not.
C28_JsonKeyPolicy_MergeIntoMap ==
    op = "json_key" =>
        Outcome(res.map, arg.key) =
            (IF arg.key.t = "String" THEN "inserted"
             ELSE IF ~arg.ops.compressed THEN "rejected"
             ELSE IF get_as_string(arg.key).some THEN "inserted"
             ELSE "panicked")

\* C28, merge_map_like_into_map alone: a string key is missed, also one that
\* is no string when the adapter compresses; when it does not compress, a key
\* that is no string is inserted under its text, or the call panics.
C28_JsonKeyPolicy_MergeMapLike ==
    op = "json_key" =>
        Outcome(res.map_like, arg.key) =
            (IF arg.key.t = "String" \/ arg.ops.compressed THEN "rejected"
             ELSE IF get_as_string(arg.key).some THEN "inserted"
             ELSE "panicked")

\* ---------------------------------------------------------------------- C25

\* C25: the function given to lazy() is not run when the lazy codec is
\* constructed and is run at most once over all encode and decode calls,
\* however the calls of the threads interleave; every call that has returned
\* encoded or decoded with the codec that one run produced.
C25_LazyOnce ==
    op = "lazy" =>
        /\ lazy.runs <= 1
        /\ lazy.state = "uninit" => lazy.runs = 0
        /\ (\A t \in DOMAIN threads : threads[t].pc = "idle") => lazy.runs = 0
        /\ \A t \in DOMAIN threads :
              threads[t].pc = "done" =>
                  /\ lazy.runs = 1
                  /\ threads[t].got = delegate(thunk_call(lazy.f, 0), threads[t].call)

\* Every thread has finished a call on a lazy codec whose function would
\* build another codec on a second run, the calls differ, and one of them is
\* on a value only that other codec accepts.
C25_Witness ==
    /\ op = "lazy"
    /\ thunk_call(lazy.f, 0) # thunk_call(lazy.f, 1)
    /\ \A t \in DOMAIN threads : threads[t].pc = "done"
    /\ \E t, u \in DOMAIN threads :
          /\ threads[t].call.kind = "encode" /\ threads[t].call.input = 7
          /\ threads[u].call.kind = "decode"
    /\ lazy.runs = 1

\* ---------------------------------------------------------------------- C26

\* C26: when several threads call compressor() on the same map codec
\* concurrently and for the first time, every caller that has returned holds
\* the table built from that codec's keys(), and the cache holds that table
\* for the codec.
C26_ConcurrentCompressor_AsClaimed ==
    op = "threads" =>
        \A t \in DOMAIN threads :
            threads[t].pc = "done" =>
                /\ threads[t].got = compressor(arg.codec)
                /\ cache[arg.address] = compressor(arg.codec)

\* What the code guarantees in the cases of C26: the callers that have
\* returned hold one and the same complete table, the one the cache holds
\* for the holder's address; a stored table is never replaced, and only a
\* thread holding the entry stores one.
C26_ConcurrentCompressor_SameTable ==
    [][/\ \A a \in DOMAIN cache : a \in DOMAIN cache' /\ cache'[a] = cache[a]
       /\ op' = "threads" =>
             /\ \A t \in DOMAIN threads' :
                   threads'[t].pc = "done" =>
                       /\ arg'.address \in DOMAIN cache'
                       /\ threads'[t].got = cache'[arg'.address]
                       /\ \E mc \in HeapCodecs :
                              \E h \in HoldersAt(mc, arg'.address) :
                                  threads'[t].got = compressor(h[1])
             /\ (cache' # cache => lock # 0 /\ lock' = 0)]_vars

\* Every thread has returned from its first compressor() call on a codec
\* constructed at an address whose earlier occupant had a table stored.
C26_ConcurrentCompressor_AllReturned ==
    /\ op = "threads"
    /\ \A t \in DOMAIN threads : threads[t].pc = "done"
    /\ cache[arg.address] # compressor(arg.codec)

====
